---- MODULE Spec2Model ----
(***************************************************************************)
(* The live-text hand-off of the faeton HUD (src/windows_hud/main.cpp):    *)
(* the subscriber thread (SubscribeLoop) parses the event stream and       *)
(* publishes into the shared display state (latestText, logLines,          *)
(* dataVersion, guarded by textMutex); the UI thread polls it on a timer   *)
(* (RefreshTextIfChanged), paints it (WM_PAINT) and, in single-player      *)
(* mode, is itself the producer (PollInputFile, SetLatestText).            *)
(*                                                                         *)
(* A string is a sequence of characters; a character is a one-character    *)
(* TLA+ string.  The bytes 0xC3 0xA9 (UTF-8 for U+00E9) are written        *)
(* "xC3" "xA9", the wide characters U+00E9 and U+FFFD "U+E9" and "U+FFFD". *)
(***************************************************************************)
EXTENDS Integers, Sequences, FiniteSets, TLC

(***************************************************************************)
(* Bounds of the model                                                     *)
(***************************************************************************)
\* successful connections the network grants in one run
MaxConnects == 2
\* events of one connection's stream in SpecParse
MaxItems == 2
\* lines of one connection's stream in SpecLines
MaxLines == 3
\* file rewrites and failed submissions in one single-player run
MaxInputs == 2
\* wheel events in one run
MaxWheels == 2
\* the longest run of zoom-in steps that is followed from the default font size
MaxZooms == 50

(***************************************************************************)
(* Program constants                                                       *)
(***************************************************************************)
\* main.cpp:836  if (s.logLines.size() > 400)
kLogCapacity == 400
\* main.cpp:1500/1508/1519  Sleep(1000) after a failed connect
kConnectRetryMs == 1000
\* main.cpp:1598  Sleep(500) after a stream ended
kStreamRetryMs == 500

\* main.cpp:57  constexpr float kFontSize = 14.0f;
kFontSize == 14
\* main.cpp:60  constexpr float kFontStep = 1.0f;
kFontStep == 1
\* main.cpp:61-62
kMinMainFontSize == 10
kMaxMainFontSize == 42
\* main.cpp:63  constexpr float kPadding = 10.0f;
kPadding == 10
\* main.cpp:65-68
kMinWidth == 300
kMaxWidth == 567
kMinHeight == 180
kMaxHeight == 2000
\* main.cpp:69-70
kTopMargin == 30
kRightMargin == 30
\* main.cpp:72-76
kBaseWindowWidth == kMaxWidth
kBaseWindowHeight == 340
kFontResizeThreshold == 24
kFontGrowWidthPerPoint == 56
kFontGrowHeightPerPoint == 10
\* main.cpp:82  constexpr float kWheelStepPx = 36.0f;
kWheelStepPx == 36
\* WinUser.h  #define WHEEL_DELTA 120
WHEEL_DELTA == 120
\* main.cpp:257/364  the 20 px kept free of the work area beside the margin
kMonitorSlack == 20

kRecordingActive == <<"R","e","c","o","r","d","i","n","g"," ","a","c","t","i","v","e",".">>
kUnknownStamp == <<"-","-",":","-","-",":","-","-">>
kPubTextError == <<"p","u","b"," ","t","e","x","t"," ","e","r","r","o","r",":"," ","c","a","n","n","o","t"," ","w","r","i","t","e"," ","o","u","t","p","u","t"," ","f","i","l","e">>

(***************************************************************************)
(* String helpers                                                          *)
(***************************************************************************)
IsSpace(ch) == ch \in {" ", "\n", "\r", "\t"}

RECURSIVE TrimStartIdx(_, _)
TrimStartIdx(in, start) ==
    IF start < Len(in) /\ IsSpace(in[start + 1])
    THEN TrimStartIdx(in, start + 1)
    ELSE start

RECURSIVE TrimEndIdx(_, _, _)
TrimEndIdx(in, start, end) ==
    IF end > start /\ IsSpace(in[end])
    THEN TrimEndIdx(in, start, end - 1)
    ELSE end

\* std::wstring Trim(const std::wstring&)
Trim(in) ==
    LET start == TrimStartIdx(in, 0)
        end   == TrimEndIdx(in, start, Len(in))
    IN  SubSeq(in, start + 1, end)

\* std::string TrimAscii(const std::string&)
TrimAscii(in) ==
    LET start == TrimStartIdx(in, 0)
        end   == TrimEndIdx(in, start, Len(in))
    IN  SubSeq(in, start + 1, end)

\* s.substr(pos) with pos counted from 0
SubstrFrom(s, pos) == SubSeq(s, pos + 1, Len(s))

\* s.rfind(prefix, 0) == 0
StartsWith(s, prefix) ==
    Len(s) >= Len(prefix) /\ SubSeq(s, 1, Len(prefix)) = prefix

\* s.find(pat, from): the least 0-based position >= from where pat occurs, or -1 (npos)
RECURSIVE FindFrom(_, _, _)
FindFrom(s, pat, from) ==
    IF from + Len(pat) > Len(s) THEN -1
    ELSE IF SubSeq(s, from + 1, from + Len(pat)) = pat THEN from
    ELSE FindFrom(s, pat, from + 1)

\* MultiByteToWideChar(CP_UTF8, 0, ...): ASCII bytes map to themselves, the pair
\* C3 A9 to U+00E9, and every byte that is not part of a valid sequence to U+FFFD
RECURSIVE DecodeUtf8(_)
DecodeUtf8(s) ==
    IF s = <<>> THEN <<>>
    ELSE IF Head(s) = "xC3" /\ Len(s) >= 2 /\ s[2] = "xA9"
         THEN <<"U+E9">> \o DecodeUtf8(SubstrFrom(s, 2))
    ELSE IF Head(s) \in {"xC3", "xA9"}
         THEN <<"U+FFFD">> \o DecodeUtf8(Tail(s))
    ELSE <<Head(s)>> \o DecodeUtf8(Tail(s))

Utf8ToWide(s) == IF s = <<>> THEN <<>> ELSE DecodeUtf8(s)

(***************************************************************************)
(* HumanTimeFromUnixText: std::stod, the <= 0 test, localtime_s, wcsftime. *)
(* std::stod is modelled on the grammar  [ws] [+|-] digits [. digits] :    *)
(* it converts the longest such prefix and throws when there is no digit.  *)
(***************************************************************************)
DigitChars == <<"0","1","2","3","4","5","6","7","8","9">>

IsDigit(ch) == \E i \in 1..10 : DigitChars[i] = ch

DigitVal(ch) == (CHOOSE i \in 1..10 : DigitChars[i] = ch) - 1

RECURSIVE LeadingDigits(_)
LeadingDigits(s) ==
    IF s # <<>> /\ IsDigit(Head(s)) THEN <<Head(s)>> \o LeadingDigits(Tail(s)) ELSE <<>>

\* the time of day, in seconds, of the count of seconds written as ds; the count
\* itself may be wider than the model's integers
RECURSIVE SecOfDay(_, _)
SecOfDay(ds, acc) ==
    IF ds = <<>> THEN acc ELSE SecOfDay(Tail(ds), (acc * 10 + DigitVal(Head(ds))) % 86400)

RECURSIVE StripZeros(_)
StripZeros(ds) == IF ds # <<>> /\ Head(ds) = "0" THEN StripZeros(Tail(ds)) ELSE ds

\* a <= b for two digit strings of the same length
RECURSIVE DigitsLeq(_, _)
DigitsLeq(a, b) ==
    \/ a = <<>>
    \/ DigitVal(Head(a)) < DigitVal(Head(b))
    \/ Head(a) = Head(b) /\ DigitsLeq(Tail(a), Tail(b))

\* the last second localtime_s converts: 07:59:59 on 19 January 3001 UTC
kMaxTime64 == <<"3","2","5","3","6","7","9","9","9","9","9">>

\* localtime_s(&tmv, &sec) == 0 for the count of seconds written as ds.  A count
\* that time_t cannot hold is converted by the cast to the least or the greatest
\* time_t, depending on the processor, and both are refused as well.
LocalTimeOk(ds) ==
    LET n == StripZeros(ds)
    IN  \/ Len(n) < Len(kMaxTime64)
        \/ Len(n) = Len(kMaxTime64) /\ DigitsLeq(n, kMaxTime64)

\* the environment's local time zone, seconds east of UTC
TzOffsetSec == 60 * 60

\* std::stod(tsText): [ok |-> converted, neg, int |-> the digits of the integral
\* part, frac |-> fraction # 0]
Stod(tsText) ==
    LET s0    == SubstrFrom(tsText, TrimStartIdx(tsText, 0))
        neg   == s0 # <<>> /\ Head(s0) = "-"
        s1    == IF s0 # <<>> /\ Head(s0) \in {"+", "-"} THEN Tail(s0) ELSE s0
        ip    == LeadingDigits(s1)
        s2    == SubstrFrom(s1, Len(ip))
        fp    == IF s2 # <<>> /\ Head(s2) = "." THEN LeadingDigits(Tail(s2)) ELSE <<>>
    IN  [ok   |-> Len(ip) + Len(fp) > 0,
         neg  |-> neg,
         int  |-> StripZeros(ip),
         frac |-> \E i \in 1..Len(fp) : fp[i] # "0"]

TwoDigits(n) == <<DigitChars[(n \div 10) + 1], DigitChars[(n % 10) + 1]>>

\* localtime_s + wcsftime(L"%H:%M:%S") on a time of day in UTC
FormatLocalHMS(sec) ==
    LET t == (sec + TzOffsetSec) % 86400
    IN  TwoDigits(t \div 3600) \o <<":">> \o TwoDigits((t % 3600) \div 60)
        \o <<":">> \o TwoDigits(t % 60)

\* HumanTimeFromUnixText after std::stod: the <= 0 test, the cast, localtime_s and
\* wcsftime (main.cpp:794-806)
StampOfNumber(ts) ==
    IF ~ts.ok THEN kUnknownStamp
    ELSE IF ts.neg \/ (ts.int = <<>> /\ ~ts.frac) THEN kUnknownStamp
    ELSE IF ~LocalTimeOk(ts.int) THEN kUnknownStamp
    ELSE FormatLocalHMS(SecOfDay(ts.int, 0))

\* (the number is bound once, as the code converts it once)
HumanTimeFromUnixText(tsText) ==
    IF tsText = <<>> THEN kUnknownStamp
    ELSE CHOOSE stamp \in { StampOfNumber(ts) : ts \in {Stod(tsText)} } : TRUE

(***************************************************************************)
(* Shared display state: the pieces of AppendLiveLogLine, SetLatestText,   *)
(* PollInputFile and RefreshTextIfChanged that are pure.                   *)
(***************************************************************************)
LogLine(hhmmss, text) == [hhmmss |-> hhmmss, text |-> text]

\* a body that is stored as it arrived
BodyOf_Untrimmed(text) == IF text = <<>> THEN kRecordingActive ELSE text

\* body = Trim(text); if (body.empty()) body = L"Recording active.";
BodyOf(text) == IF Trim(text) = <<>> THEN kRecordingActive ELSE Trim(text)

\* a log that takes the new line at its front
PushBack_AtFront(log, hhmmss, body) ==
    <<LogLine(IF hhmmss = <<>> THEN kUnknownStamp ELSE hhmmss, body)>> \o log

\* s.logLines.push_back(LogLine{hhmmss.empty() ? L"--:--:--" : hhmmss, body});
PushBack(log, hhmmss, body) ==
    Append(log, LogLine(IF hhmmss = <<>> THEN kUnknownStamp ELSE hhmmss, body))

PopFrontIfOver_NoEvict(log) == log

PopFrontIfOver_DropNewest(log) ==
    IF Len(log) > kLogCapacity THEN SubSeq(log, 1, kLogCapacity) ELSE log

\* if (s.logLines.size() > 400) s.logLines.pop_front();
PopFrontIfOver(log) == IF Len(log) > kLogCapacity THEN Tail(log) ELSE log

NextVersion_Stuck(v) == v

\* s.dataVersion += 1;  (uint64_t: no run of the model comes near 2^64)
NextVersion(v) == v + 1

CanLock_NoMutex(m) == TRUE

\* std::lock_guard<std::mutex> lock(s.textMutex): the caller proceeds when it is free
CanLock(m) == m = "free"

\* a writer that stores its text as given
SetLatestValue_Raw(text) == text

\* s.latestText = text.empty() ? L"Recording active." : text;   (SetLatestText)
SetLatestValue(text) == IF text = <<>> THEN kRecordingActive ELSE text

\* if (normalized != s.latestText)   (PollInputFile)
PollPublishes(normalized, current) == normalized # current

LogAfterCopy_Moved(log) == <<>>

\* lines = s->logLines;  a copy: the shared deque is left as it was
LogAfterCopy(log) == log

VersionChanged_Always(rendered, ver) == TRUE

\* if (version != s.renderedVersion)   (RefreshTextIfChanged)
VersionChanged(rendered, ver) == ver # rendered

ConsumeVersion_Ahead(rendered, ver) == IF ver # rendered THEN ver + 1 ELSE rendered

\* if (version != s.renderedVersion) s.renderedVersion = version;
ConsumeVersion(rendered, ver) == IF ver # rendered THEN ver ELSE rendered

\* the last n entries of a sequence
LastN(s, n) == IF Len(s) <= n THEN s ELSE SubSeq(s, Len(s) - n + 1, Len(s))

Max(a, b) == IF a >= b THEN a ELSE b

(***************************************************************************)
(* The wheel, the zoom and the window size                                 *)
(***************************************************************************)
\* int / int and int % int of C++: the quotient is truncated toward zero and
\* the remainder takes the sign of the dividend
TruncDiv(a, b) == IF a >= 0 THEN a \div b ELSE -((-a) \div b)
TruncRem(a, b) == a - b * TruncDiv(a, b)

WheelHandled_Always(single) == TRUE

\* case WM_MOUSEWHEEL: if (s && !s->singlePlayerMode)
WheelHandled(single) == ~single

\* int steps = s->wheelRemainder / WHEEL_DELTA;   after  wheelRemainder += delta
WheelStepsOf(remainder, delta) == TruncDiv(remainder + delta, WHEEL_DELTA)

WheelRemainderAfter_Dropped(remainder, delta) == 0

\* s->wheelRemainder = s->wheelRemainder % WHEEL_DELTA;
WheelRemainderAfter(remainder, delta) == TruncRem(remainder + delta, WHEEL_DELTA)

ClampScroll_None(offset, maxOffset) == offset

\* if (scrollOffsetPx < 0) scrollOffsetPx = 0;
\* if (scrollOffsetPx > maxScrollOffsetPx) scrollOffsetPx = maxScrollOffsetPx;
ClampScroll(offset, maxOffset) ==
    LET off0 == IF offset < 0 THEN 0 ELSE offset
    IN  IF off0 > maxOffset THEN maxOffset ELSE off0

NextMainFontSize_Unclamped(size, delta) == size + (delta * kFontStep)

\* std::clamp(s.mainFontSize + (delta * kFontStep), kMinMainFontSize, kMaxMainFontSize)
NextMainFontSize(size, delta) ==
    LET v == size + (delta * kFontStep)
    IN  IF v < kMinMainFontSize THEN kMinMainFontSize
        ELSE IF v > kMaxMainFontSize THEN kMaxMainFontSize ELSE v

\* MaxWidthForMonitor: the work area's width less the margin, never below kMinWidth
MaxWidthForMonitor(work) ==
    LET available == work.w - kRightMargin - kMonitorSlack
    IN  IF available < kMinWidth THEN kMinWidth ELSE available

\* MaxHeightForMonitor
MaxHeightForMonitor(work) ==
    LET available == work.h - kTopMargin - kMonitorSlack
    IN  IF available < kMinHeight THEN kMinHeight ELSE available

\* a window that keeps its base size at every font size
WindowSizeForFont_Fixed(size, work) == [w |-> kBaseWindowWidth, h |-> kBaseWindowHeight]

\* ApplyWindowSizeForFont: the size it hands to MoveToTopRight
WindowSizeForFont(size, work) ==
    LET grow    == Max(0, size - kFontResizeThreshold)
        targetW == kBaseWindowWidth + (grow * kFontGrowWidthPerPoint)
        targetH == kBaseWindowHeight + (grow * kFontGrowHeightPerPoint)
        maxW    == MaxWidthForMonitor(work)
        maxH    == MaxHeightForMonitor(work)
        w1      == IF targetW > maxW THEN maxW ELSE targetW
        h1      == IF targetH > maxH THEN maxH ELSE targetH
    IN  [w |-> IF w1 < kMinWidth THEN kMinWidth ELSE w1,
         h |-> IF h1 < kMinHeight THEN kMinHeight ELSE h1]

\* DirectWrite's metrics in the format of the given size: the advance of one
\* character and the height of one row
CharWidthPx(size) == size \div 2
RowHeightPx(size) == size + 4

\* the characters of the longest line of text
RECURSIVE WidestLineFrom(_, _, _)
WidestLineFrom(text, cur, best) ==
    IF text = <<>> THEN Max(cur, best)
    ELSE IF Head(text) = "\n" THEN WidestLineFrom(Tail(text), 0, Max(cur, best))
    ELSE WidestLineFrom(Tail(text), cur + 1, best)

\* the rows of text: the texts of the model are narrower than the text area
RECURSIVE RowsOf(_)
RowsOf(text) ==
    IF text = <<>> THEN 1 ELSE (IF Head(text) = "\n" THEN 1 ELSE 0) + RowsOf(Tail(text))

\* ComputeDesiredWidth with an empty metaText: the unwrapped width of mainText plus
\* the padding, clamped to [kMinWidth, kMaxWidth] and to the monitor
ComputeDesiredWidth(mainText, size, work) ==
    LET maxTextW == WidestLineFrom(mainText, 0, 0) * CharWidthPx(size)
        wanted   == maxTextW + (kPadding * 2) + 12
        w1       == IF wanted < kMinWidth THEN kMinWidth ELSE wanted
        w2       == IF w1 > kMaxWidth THEN kMaxWidth ELSE w1
        maxW     == MaxWidthForMonitor(work)
    IN  IF w2 > maxW THEN maxW ELSE w2

\* ComputeHeightForText with an empty metaText
ComputeHeightForText(mainText, size, panelWidth) ==
    LET mainHeight == (RowsOf(mainText) * RowHeightPx(size)) + 2
        h          == (kPadding * 2) + mainHeight
    IN  IF h < kMinHeight THEN kMinHeight ELSE IF h > kMaxHeight THEN kMaxHeight ELSE h

\* the window size the layout functions give for a text
FitWindow(mainText, size, work) ==
    LET w == ComputeDesiredWidth(mainText, size, work)
    IN  [w |-> w, h |-> ComputeHeightForText(mainText, size, w)]

\* wWinMain:2112-2143  the size of the window at start-up
InitialWindowSize(work) ==
    LET monitorMax == MaxHeightForMonitor(work)
    IN  [w |-> kBaseWindowWidth,
         h |-> IF kBaseWindowHeight > monitorMax THEN monitorMax ELSE kBaseWindowHeight]

(***************************************************************************)
(* The event-stream line parser of SubscribeLoop                           *)
(***************************************************************************)
kIdPrefix == <<"i","d",":">>
kDataPrefix == <<"d","a","t","a",":">>
kTextKey == <<"t","e","x","t">>

\* if (!line.empty() && line.back() == '\r') line.pop_back();
StripCr(ln) ==
    IF ln # <<>> /\ ln[Len(ln)] = "\r" THEN SubSeq(ln, 1, Len(ln) - 1) ELSE ln

UnescapeFrom_None(value, pos) == value

\* while ((pos = value.find("\\n", pos)) != npos) { value.replace(pos, 2, "\n"); pos += 1; }
RECURSIVE UnescapeFrom(_, _)
UnescapeFrom(value, pos) ==
    LET at == FindFrom(value, <<"\\", "n">>, pos)
    IN  IF at = -1 THEN value
        ELSE UnescapeFrom(SubSeq(value, 1, at) \o <<"\n">> \o SubstrFrom(value, at + 2),
                          at + 1)

\* the dispatch of one extracted line: which branch it takes and the value it carries
ParseLine(ln) ==
    IF ln = <<>> THEN [kind |-> "blank", value |-> <<>>]
    ELSE IF StartsWith(ln, kIdPrefix)
         THEN [kind |-> "id", value |-> TrimAscii(SubstrFrom(ln, 3))]
    ELSE IF ~StartsWith(ln, kDataPrefix) THEN [kind |-> "ignored", value |-> <<>>]
    ELSE LET payload == TrimAscii(SubstrFrom(ln, 5))
             colon   == FindFrom(payload, <<":">>, 0)
         IN  IF colon = -1 THEN [kind |-> "ignored", value |-> <<>>]
             ELSE LET key   == TrimAscii(SubSeq(payload, 1, colon))
                      value == TrimAscii(SubstrFrom(payload, colon + 1))
                  IN  IF key = kTextKey
                      THEN [kind |-> "text", value |-> UnescapeFrom(value, 0)]
                      ELSE [kind |-> "ignored", value |-> <<>>]

TextLineFlushes_Lazy == FALSE

\* main.cpp:1589  flushEvent() right after eventText/hasText are set
TextLineFlushes == TRUE

FlushPublishes_Always(has) == TRUE

\* flushEvent:  if (!hasText) { eventId.clear(); return; }  -- else it publishes
FlushPublishes(has) == has

AppendChunk_Replace(buffer, chunk) == chunk

\* buf.append(chunk): a partial line left in buf stays in front of the new bytes
AppendChunk(buffer, chunk) == buffer \o chunk

IdAfterIgnored_Cleared(id) == <<>>

\* the three  continue  of the line dispatch that take no action (main.cpp:1571-1578
\* and the fall-through of 1581): the pending id stays
IdAfterIgnored(id) == id

\* a buffer that outlives the connection
FreshBuffer_Carried(old) == old

\* std::string buf;  declared in the body of the outer loop (main.cpp:1523): every
\* connection gets a new, empty one and the old one is destroyed with its content
FreshBuffer(old) == <<>>

\* a flush that leaves the id pending for the next text line
IdAfterFlush_Kept(id) == id

\* flushEvent after a publish:  eventId.clear();   (main.cpp:1535)
IdAfterFlush(id) == <<>>

LatestAfterAppend_Kept(old, body) == old

\* s.latestText = body;   (AppendLiveLogLine)
LatestAfterAppend(old, body) == body

OuterLoopContinues_IgnoresStop(stop) == TRUE

\* while (!state->stopSub.load())   -- main.cpp:1496
OuterLoopContinues(stop) == ~stop

ReadLoopContinues_IgnoresStop(stop) == TRUE

\* while (!state->stopSub.load())   -- main.cpp:1539
ReadLoopContinues(stop) == ~stop

AfterClosePc_NoDelay(stop) == "outer"

\* if (!state->stopSub.load()) Sleep(500);  then the outer loop's next iteration
AfterClosePc(stop) == IF ~stop THEN "sleep" ELSE "outer"

\* a join that does not wait
JoinReturns_AtOnce(pc) == TRUE

\* if (t.joinable()) t.join();  (main.cpp:2189-2194): passed when the thread was never
\* started or its function has returned
JoinReturns(pc) == pc \in {"none", "done"}

Unlock_Leaked(m) == m

\* the lock_guard goes out of scope
Unlock(m) == "free"

(***************************************************************************)
(* The environment: what the server sends, what the input file holds and   *)
(* what the text measurement returns                                       *)
(***************************************************************************)
Event(id, text) == [kind |-> "event", id |-> id, text |-> text]

\* a single line sent as it is
RawLine(l) == [kind |-> "line", id |-> <<>>, text |-> l]

\* the sender's escaping: a newline of the text travels as backslash, n
RECURSIVE Escape(_)
Escape(text) ==
    IF text = <<>> THEN <<>>
    ELSE (IF Head(text) = "\n" THEN <<"\\", "n">> ELSE <<Head(text)>>) \o Escape(Tail(text))

\* the lines an item occupies on the wire
ItemLines(item) ==
    IF item.kind = "line" THEN << item.text >>
    ELSE << <<"i","d",":"," ">> \o item.id,
            <<"d","a","t","a",":"," ","t","e","x","t",":"," ">> \o Escape(item.text),
            <<>> >>

RECURSIVE JoinLines(_)
JoinLines(ls) ==
    IF ls = <<>> THEN <<>> ELSE Head(ls) \o <<"\n">> \o JoinLines(Tail(ls))

RECURSIVE WireOf(_)
WireOf(items) ==
    IF items = <<>> THEN <<>> ELSE JoinLines(ItemLines(Head(items))) \o WireOf(Tail(items))

SeqsUpTo(S, n) == UNION {[1..k -> S] : k \in 0..n}

kScenarioId == <<"1","7","0","0","0","0","0","0","0","0">>
kScenarioText == <<"h","e","l","l","o","\n","w","o","r","l","d">>

ParseEvents ==
    { Event(kScenarioId, kScenarioText),
      Event(<<"7">>, <<"a">>),
      Event(<<"x">>, <<"xC3", "xA9">>),
      Event(<<>>, <<>>) }

ParseStreams == SeqsUpTo(ParseEvents, MaxItems)

ConcStreams ==
    { << Event(<<"7">>, <<"a">>) >>,
      << Event(<<>>, <<"b">>), Event(<<"7">>, <<"a">>) >> }

\* the ids of SpecStamp: absent, not a number, zero, negative, a fraction below one,
\* small, with trailing text, with leading zeros, the scenario's, and two past the
\* year 3001 (the second wider than time_t)
StampIds ==
    { <<>>, <<"x">>, <<"0">>, <<"-","5">>, <<"0",".","5">>, <<"7">>, <<"7","x">>,
      <<"0","0","7">>, <<"8","6","4","0","7",".","9">>, kScenarioId,
      <<"9","9","9","9","9","9","9","9","9","9","9">>,
      <<"1","0","0","0","0","0","0","0","0","0","0","0","0","0","0","0","0","0","0","0">> }

\* the texts of SpecStamp: plain, empty, a blank, a lone newline, and one with a
\* blank inside and newlines at both ends
BodyTexts == { <<"a">>, <<>>, <<" ">>, <<"\n">>, <<"\n","a"," ","b","\n">> }

StampStreams == { << Event(id, text) >> : id \in StampIds, text \in BodyTexts }

\* the lines of SpecLines: two id lines, the blank line, two text lines, and one
\* line of each kind the dispatch passes over
kLineId7 == <<"i","d",":"," ","7">>
kLineId8 == <<"i","d",":","8">>
kLineTextA == <<"d","a","t","a",":"," ","t","e","x","t",":"," ","a">>
kLineTextB == <<"d","a","t","a",":","t","e","x","t",":","b">>
kLineStray == <<":","o","k">>
kLineNoColon == <<"d","a","t","a",":"," ","x">>
kLineOtherKey == <<"d","a","t","a",":"," ","k",":"," ","v">>

IgnoredLines == {kLineStray, kLineNoColon, kLineOtherKey}

LineAlphabet == {kLineId7, kLineId8, <<>>, kLineTextA, kLineTextB} \cup IgnoredLines

LineStreams == SeqsUpTo({RawLine(l) : l \in LineAlphabet}, MaxLines)

\* the lengths of the chunk a read may return: any, or whole lines only
AnyCut(w) == 1..Len(w)
LineCut(w) == {n \in 1..Len(w) : n = Len(w) \/ w[n] = "\n"}

\* read = the length WinHttpReadData reports for this chunk
Cuts(w, wholeLines) == IF wholeLines THEN LineCut(w) ELSE AnyCut(w)

\* GET_WHEEL_DELTA_WPARAM: a notch, a notch back, a half notch, a notch and a half back
WheelDeltas == {120, -120, 60, -180}

\* the delta of kAdjustFontMsg and of Ctrl +/-: FontDeltaForKey gives +1 or -1, the
\* message carries any int
ZoomDeltas == {1, -1, 50, -50}

\* rcWork of the monitor the window is on (GetMonitorInfo)
kDefaultMonitor == [w |-> 1920, h |-> 1080]
Monitors == {kDefaultMonitor, [w |-> 640, h |-> 360], [w |-> 320, h |-> 200]}

FileContents == { <<>>, <<"a">>, <<" ", "a", "\n">>, <<"b">> }

\* the client area left for the log
ViewportHeights == {20, 290}

RECURSIVE CountNl(_)
CountNl(text) ==
    IF text = <<>> THEN 0 ELSE (IF Head(text) = "\n" THEN 1 ELSE 0) + CountNl(Tail(text))

\* float h = max(tm.height, mm.height) + 2.0f;
ItemHeight(l, row) == Max(row, row * (1 + CountNl(l.text))) + 2

\* totalHeight += h over the items lo..hi (summed by halves: the log is long)
RECURSIVE HeightOfRange(_, _, _, _)
HeightOfRange(ls, row, lo, hi) ==
    IF lo > hi THEN 0
    ELSE IF lo = hi THEN ItemHeight(ls[lo], row)
    ELSE LET mid == (lo + hi) \div 2
         IN  HeightOfRange(ls, row, lo, mid) + HeightOfRange(ls, row, mid + 1, hi)

TotalHeight(ls, row) == HeightOfRange(ls, row, 1, Len(ls))

\* float top = kPadding;
TextTop == kPadding

\* no paint is under way
kNothingDrawn == [bottom |-> TextTop, calls |-> <<>>]

\* the first item hangs from the text area's bottom whatever the offset
FirstItemBottom_Unscrolled(bottom, offset) == bottom

\* float y = bottom + s->scrollOffsetPx;
FirstItemBottom(bottom, offset) == bottom + offset

\* for (const auto& item : items) { y -= item.h; ... DrawTextLayout(Point2F(left, y), ...) }
\* over the items built from lines.rbegin() on, here those of the lines lo..hi with
\* yBelow the y left by the item after hi: an item is skipped when it ends above the
\* top or starts below the bottom, and drawn at y otherwise (the loop is unrolled by
\* halves, the newer half first: the log is long)
RECURSIVE DrawItems(_, _, _, _, _, _)
DrawItems(ls, row, lo, hi, yBelow, bottom) ==
    IF lo > hi THEN <<>>
    ELSE IF lo = hi
    THEN LET h == ItemHeight(ls[lo], row)
             y == yBelow - h
         IN  IF y + h < TextTop \/ y > bottom
             THEN <<>>
             ELSE << [line |-> ls[lo], y |-> y, h |-> h] >>
    ELSE LET mid == (lo + hi) \div 2
         IN  DrawItems(ls, row, mid + 1, hi, yBelow, bottom) \o
             DrawItems(ls, row, lo, mid,
                       yBelow - HeightOfRange(ls, row, mid + 1, hi), bottom)

\* single-player: DrawTextLayout(Point2F(left, top), layout, ...) of the one text
DrawText(l, row) == << [line |-> l, y |-> TextTop, h |-> ItemHeight(l, row) - 2] >>

\* a scroll range that is the bare difference
MaxScrollFor_Unfloored(totalHeight, viewportHeight) == totalHeight - viewportHeight

\* s->maxScrollOffsetPx = max(0.0f, totalHeight - viewportHeight);
MaxScrollFor(totalHeight, viewportHeight) == Max(0, totalHeight - viewportHeight)

(***************************************************************************)
(* State                                                                   *)
(***************************************************************************)
VARIABLES
    \* AppState shared between the threads
    latestText, logLines, dataVersion, textMutex, stopSub, stopCapture,
    \* SubscribeLoop: position, flushEvent's continuation, the Sleep in progress
    subPc, subRet, sleepMs,
    \* SubscribeLoop: the per-connection locals
    buf, line, eventId, eventText, hasText,
    \* AppendLiveLogLine's arguments after normalisation
    appStamp, appBody,
    \* the connection: bytes not yet read, connections granted, items sent, log base
    wire, connects, sent, connBase,
    \* what the connection closed last left unprocessed: its buffer and pending id
    dropped,
    \* the reads that returned bytes after stopSub was set
    readsAfterStop,
    \* UI thread: mode, position, locals of the handlers
    singlePlayerMode, uiPc, latest, version, lines, drawText, normalized,
    \* UI thread: AppState fields only it touches
    renderedVersion, currentText, scrollOffsetPx, maxScrollOffsetPx, dirty,
    \* UI thread: the wheel's carry; events seen, their sum, the whole steps applied
    wheelRemainder, wheelEvents, wheelSum, wheelSteps,
    \* UI thread: the font size, the run of zoom-in steps since start (-1: broken)
    mainFontSize, zoomIns,
    \* the window's size as last set, the monitor's work area
    windowSize, rcWork,
    \* SetLatestText's parameter text during a call
    setArg,
    \* the input file, the count of external inputs, what the last completed poll read
    \* and whether the latest poll could not read the file
    fileText, inputs, lastPolled,
    \* CaptureLoop's position; the detached PostPubText threads that have not returned yet
    capPc, pubThreads,
    \* observations: what was handed to narration, the last snapshot taken
    narrated, speakCalls, prevSnap,
    \* WM_PAINT between BeginDraw and EndDraw: the text area's bottom and the
    \* DrawTextLayout calls made so far
    drawn,
    \* history: every line pushed, every (text, version) left behind by a publish
    published, committed

sharedData == <<latestText, logLines, dataVersion>>
parserVars == <<buf, line, eventId, eventText, hasText>>
appVars == <<appStamp, appBody>>
netVars == <<wire, connects, sent, connBase, dropped, readsAfterStop>>
subVars == <<subPc, subRet, sleepMs, parserVars, appVars>>
uiLocals == <<latest, version, lines, drawText, normalized>>
uiState == <<renderedVersion, currentText, scrollOffsetPx, maxScrollOffsetPx, dirty>>
fileVars == <<fileText, inputs, lastPolled>>
observed == <<narrated, speakCalls, prevSnap, drawn>>
uiVars == <<uiPc, uiLocals, uiState, observed>>

\* DirectWrite's height of one row of text in the formats RebuildTextFormats built
\* for the current font size
RowHeights == {RowHeightPx(mainFontSize)}
\* the two stop flags of AppState
stopFlags == <<stopSub, stopCapture>>
wheelVars == <<wheelRemainder, wheelEvents, wheelSum, wheelSteps>>
zoomVars == <<mainFontSize, zoomIns, windowSize>>
inputVars == <<wheelVars, zoomVars, rcWork, setArg>>

vars == <<sharedData, textMutex, stopFlags, subVars, netVars, singlePlayerMode,
          uiVars, inputVars, fileVars, capPc, pubThreads, published, committed>>

\* what a step of the subscriber thread leaves alone
SubFrame ==
    UNCHANGED <<singlePlayerMode, stopFlags, uiVars, inputVars, fileVars, capPc, pubThreads>>
\* what a step of the UI thread leaves alone
UiFrame ==
    UNCHANGED <<singlePlayerMode, subVars, netVars, inputVars, capPc, pubThreads, published>>

\* the shared state a completed publish leaves behind
Snapshot == [text |-> latestText, version |-> dataVersion, pubs |-> Len(published)]

\* wWinMain:2112-2143  the window is created and sized on the monitor it is on
InitWindow(work) ==
    /\ rcWork = work
    /\ windowSize = InitialWindowSize(work)

\* AppState's member initialisers (main.cpp:106-152) and empty locals
InitCommon ==
    /\ latestText = kRecordingActive
    /\ logLines = <<>>
    /\ dataVersion = 0
    /\ textMutex = "free"
    /\ stopSub = FALSE
    /\ stopCapture = FALSE
    /\ capPc = "none"
    /\ subRet = "none" /\ sleepMs = 0
    /\ buf = <<>> /\ line = <<>> /\ eventId = <<>> /\ eventText = <<>> /\ hasText = FALSE
    /\ appStamp = <<>> /\ appBody = <<>>
    /\ wire = <<>> /\ sent = <<>> /\ connBase = 0
    /\ dropped = [buf |-> <<>>, id |-> <<>>]
    /\ readsAfterStop = 0
    /\ latest = <<>> /\ version = 0 /\ lines = <<>> /\ drawText = <<>> /\ normalized = <<>>
    /\ renderedVersion = 0
    /\ currentText = kRecordingActive
    /\ scrollOffsetPx = 0 /\ maxScrollOffsetPx = 0
    /\ dirty = FALSE
    /\ wheelRemainder = 0 /\ wheelEvents = 0 /\ wheelSum = 0 /\ wheelSteps = 0
    /\ setArg = <<>>
    /\ mainFontSize = kFontSize /\ zoomIns = 0
    /\ inputs = 0
    /\ lastPolled = [valid |-> FALSE, text |-> <<>>, missed |-> FALSE]
    /\ pubThreads = 0
    /\ narrated = <<>> /\ speakCalls = 0
    /\ prevSnap = [text |-> <<>>, version |-> 0, pubs |-> 0]
    /\ drawn = kNothingDrawn
    /\ published = <<>>
    /\ committed = << [text |-> kRecordingActive, version |-> 0, pubs |-> 0] >>

\* wWinMain before the threads are started; ParseArgs has fixed the mode
Init ==
    /\ InitCommon
    /\ InitWindow(kDefaultMonitor)
    /\ singlePlayerMode \in BOOLEAN
    /\ fileText \in (IF singlePlayerMode THEN FileContents ELSE {<<>>})
    /\ connects = 0
    /\ subPc = "none"
    /\ uiPc = "start"

(***************************************************************************)
(* The subscriber thread: SubscribeLoop (main.cpp:1466-1603)               *)
(***************************************************************************)
\* WinHttpCrackUrl / WinHttpOpen: the thread returns at once when either fails
SubInit ==
    /\ subPc = "init"
    /\ \/ subPc' = "done"
       \/ subPc' = "outer"
    /\ UNCHANGED <<sharedData, textMutex, subRet, sleepMs, parserVars, appVars, netVars,
                   published, committed>>
    /\ SubFrame

\* while (!state->stopSub.load())   -- the outer loop's test
SubOuterCheck ==
    /\ subPc = "outer"
    /\ subPc' = IF OuterLoopContinues(stopSub) THEN "connect" ELSE "done"
    /\ UNCHANGED <<sharedData, textMutex, subRet, sleepMs, parserVars, appVars, netVars,
                   published, committed>>
    /\ SubFrame

\* WinHttpConnect .. WinHttpReceiveResponse: a failure sleeps 1000 ms and retries;
\* success constructs the connection's locals
SubConnect(Streams) ==
    /\ subPc = "connect"
    /\ \/ /\ subPc' = "sleep"
          /\ sleepMs' = kConnectRetryMs
          /\ UNCHANGED <<parserVars, netVars>>
       \/ /\ connects < MaxConnects
          /\ \E st \in Streams : sent' = st /\ wire' = WireOf(st)
          /\ connects' = connects + 1
          /\ connBase' = Len(published)
          /\ buf' = FreshBuffer(buf)
          /\ line' = <<>> /\ eventId' = <<>> /\ eventText' = <<>>
          /\ hasText' = FALSE
          /\ UNCHANGED <<dropped, readsAfterStop>>
          /\ subPc' = "readchk"
          /\ UNCHANGED sleepMs
    /\ UNCHANGED <<sharedData, textMutex, subRet, appVars, published, committed>>
    /\ SubFrame

\* Sleep(...) returns; continue / next iteration of the outer loop
SubSleep ==
    /\ subPc = "sleep"
    /\ subPc' = "outer"
    /\ sleepMs' = 0
    /\ UNCHANGED <<sharedData, textMutex, subRet, parserVars, appVars, netVars,
                   published, committed>>
    /\ SubFrame

\* while (!state->stopSub.load())   -- the read loop's test
SubReadCheck ==
    /\ subPc = "readchk"
    /\ subPc' = IF ReadLoopContinues(stopSub) THEN "recv" ELSE "final"
    /\ UNCHANGED <<sharedData, textMutex, subRet, sleepMs, parserVars, appVars, netVars,
                   published, committed>>
    /\ SubFrame

\* WinHttpQueryDataAvailable / WinHttpReadData: break on failure or end of stream,
\* else append the chunk to buf
SubRecv(wholeLines) ==
    /\ subPc = "recv"
    /\ \/ /\ subPc' = "final"
          /\ UNCHANGED <<buf, wire, readsAfterStop>>
       \/ \E n \in Cuts(wire, wholeLines) :
             /\ buf' = AppendChunk(buf, SubSeq(wire, 1, n))
             /\ wire' = SubstrFrom(wire, n)
             /\ readsAfterStop' = IF stopSub THEN readsAfterStop + 1 ELSE readsAfterStop
             /\ subPc' = "lines"
    /\ UNCHANGED <<sharedData, textMutex, subRet, sleepMs, line, eventId, eventText,
                   hasText, appVars, connects, sent, connBase, dropped, published,
                   committed>>
    /\ SubFrame

\* flushEvent with hasText set: the call of AppendLiveLogLine, up to its lock
CallAppend(ret, evId, evText) ==
    /\ appStamp' = HumanTimeFromUnixText(evId)
    /\ appBody' = BodyOf(Utf8ToWide(evText))
    /\ subRet' = ret
    /\ subPc' = "app_lock"

\* one turn of  while ((nl = buf.find('\n')) != npos)  : extract a line, dispatch it
SubLine ==
    /\ subPc = "lines"
    /\ \E nl \in {FindFrom(buf, <<"\n">>, 0)} :
           IF nl = -1
           THEN /\ subPc' = "readchk"
                /\ UNCHANGED <<parserVars, appVars, subRet>>
           ELSE \E ln \in {StripCr(SubSeq(buf, 1, nl))} : \E p \in {ParseLine(ln)} :
                    /\ buf' = SubstrFrom(buf, nl + 1)
                    /\ line' = ln
                    /\ CASE p.kind = "blank" ->
                              IF FlushPublishes(hasText)
                              THEN /\ CallAppend("lines", eventId, eventText)
                                   /\ UNCHANGED <<eventId, eventText, hasText>>
                              ELSE /\ eventId' = <<>>
                                   /\ subPc' = "lines"
                                   /\ UNCHANGED <<eventText, hasText, appVars, subRet>>
                         [] p.kind = "id" ->
                              IF FlushPublishes(hasText)
                              THEN /\ CallAppend("setid", eventId, eventText)
                                   /\ UNCHANGED <<eventId, eventText, hasText>>
                              ELSE /\ eventId' = p.value
                                   /\ subPc' = "lines"
                                   /\ UNCHANGED <<eventText, hasText, appVars, subRet>>
                         [] p.kind = "text" ->
                              /\ eventText' = p.value
                              /\ hasText' = TRUE
                              /\ UNCHANGED eventId
                              /\ IF TextLineFlushes
                                 THEN CallAppend("lines", eventId, eventText')
                                 ELSE /\ subPc' = "lines"
                                      /\ UNCHANGED <<appVars, subRet>>
                         [] OTHER ->
                              /\ subPc' = "lines"
                              /\ eventId' = IdAfterIgnored(eventId)
                              /\ UNCHANGED <<eventText, hasText, appVars, subRet>>
    /\ UNCHANGED <<sharedData, textMutex, sleepMs, netVars, published, committed>>
    /\ SubFrame

\* flushEvent() after the read loop (main.cpp:1593)
SubFinalFlush ==
    /\ subPc = "final"
    /\ IF FlushPublishes(hasText)
       THEN /\ CallAppend("close", eventId, eventText)
            /\ UNCHANGED eventId
       ELSE /\ eventId' = <<>>
            /\ subPc' = "close"
            /\ UNCHANGED <<appVars, subRet>>
    /\ UNCHANGED <<sharedData, textMutex, sleepMs, buf, line, eventText, hasText, netVars,
                   published, committed>>
    /\ SubFrame

\* WinHttpCloseHandle x2, the locals go out of scope, Sleep(500) unless stopping
SubClose ==
    /\ subPc = "close"
    /\ wire' = <<>>
    /\ dropped' = [buf |-> buf, id |-> eventId]
    /\ buf' = FreshBuffer(buf)
    /\ line' = <<>> /\ eventId' = <<>> /\ eventText' = <<>>
    /\ hasText' = FALSE
    /\ subPc' = AfterClosePc(stopSub)
    /\ sleepMs' = IF ~stopSub THEN kStreamRetryMs ELSE 0
    /\ UNCHANGED <<sharedData, textMutex, subRet, appVars, connects, sent, connBase,
                   readsAfterStop, published, committed>>
    /\ SubFrame

(***************************************************************************)
(* AppendLiveLogLine (main.cpp:829-841), statement by statement            *)
(***************************************************************************)
AppLock ==
    /\ subPc = "app_lock"
    /\ CanLock(textMutex)
    /\ textMutex' = "sub"
    /\ subPc' = "app_push"
    /\ UNCHANGED <<sharedData, subRet, sleepMs, parserVars, appVars, netVars,
                   published, committed>>
    /\ SubFrame

AppPush ==
    /\ subPc = "app_push"
    /\ logLines' = PushBack(logLines, appStamp, appBody)
    /\ published' = PushBack(published, appStamp, appBody)
    /\ subPc' = "app_pop"
    /\ UNCHANGED <<latestText, dataVersion, textMutex, subRet, sleepMs, parserVars,
                   appVars, netVars, committed>>
    /\ SubFrame

AppPop ==
    /\ subPc = "app_pop"
    /\ logLines' = PopFrontIfOver(logLines)
    /\ subPc' = "app_text"
    /\ UNCHANGED <<latestText, dataVersion, textMutex, subRet, sleepMs, parserVars,
                   appVars, netVars, published, committed>>
    /\ SubFrame

AppText ==
    /\ subPc = "app_text"
    /\ latestText' = LatestAfterAppend(latestText, appBody)
    /\ subPc' = "app_ver"
    /\ UNCHANGED <<logLines, dataVersion, textMutex, subRet, sleepMs, parserVars,
                   appVars, netVars, published, committed>>
    /\ SubFrame

AppVer ==
    /\ subPc = "app_ver"
    /\ dataVersion' = NextVersion(dataVersion)
    /\ subPc' = "app_unlock"
    /\ UNCHANGED <<latestText, logLines, textMutex, subRet, sleepMs, parserVars,
                   appVars, netVars, published, committed>>
    /\ SubFrame

\* the lock_guard is released and AppendLiveLogLine returns into flushEvent, which
\* clears the event and returns to its caller
AppUnlock ==
    /\ subPc = "app_unlock"
    /\ textMutex' = Unlock(textMutex)
    /\ committed' = Append(committed, Snapshot)
    /\ eventId' = IF subRet = "setid" THEN TrimAscii(SubstrFrom(line, 3))
                  ELSE IdAfterFlush(eventId)
    /\ eventText' = <<>>
    /\ hasText' = FALSE
    /\ appStamp' = <<>> /\ appBody' = <<>>
    /\ subPc' = IF subRet = "close" THEN "close" ELSE "lines"
    /\ subRet' = "none"
    /\ UNCHANGED <<sharedData, sleepMs, buf, line, netVars, published>>
    /\ SubFrame

SubNext(Streams, wholeLines) ==
    \/ SubOuterCheck
    \/ SubConnect(Streams)
    \/ SubSleep
    \/ SubReadCheck
    \/ SubRecv(wholeLines)
    \/ SubLine
    \/ SubFinalFlush
    \/ SubClose
    \/ AppLock
    \/ AppPush
    \/ AppPop
    \/ AppText
    \/ AppVer
    \/ AppUnlock

(***************************************************************************)
(* The UI thread: wWinMain's start-up and the handlers of WndProc          *)
(***************************************************************************)
TickEntry_NoRefresh == "idle"

\* the body of WM_TIMER, also run once by wWinMain before the message loop:
\* PollInputFile in single-player mode, then RefreshTextIfChanged
TickEntry == IF singlePlayerMode THEN "poll" ELSE "rf_lock"

\* a start-up that runs the subscriber in either mode
SubStartPc_Always(single) == "init"

\* wWinMain:2161-2172  SubscribeLoop gets a thread only in multiplayer mode
SubStartPc(single) == IF single THEN "none" ELSE "init"

\* wWinMain:2161-2179  the threads are started, then the first poll and refresh
UiStartup ==
    /\ uiPc = "start"
    /\ subPc' = SubStartPc(singlePlayerMode)
    /\ capPc' = IF singlePlayerMode THEN "none" ELSE "test"
    /\ uiPc' = TickEntry
    /\ UNCHANGED <<sharedData, textMutex, stopFlags, subRet, sleepMs, parserVars, appVars,
                   netVars, singlePlayerMode, uiLocals, uiState, observed, inputVars,
                   fileVars, pubThreads, published, committed>>

\* WM_TIMER with wParam == kPollTimerId
TimerTick ==
    /\ uiPc = "idle"
    /\ uiPc' = TickEntry
    /\ UNCHANGED <<sharedData, textMutex, stopFlags, uiLocals, uiState, observed, fileVars,
                   committed>>
    /\ UiFrame

\* RefreshTextIfChanged:1608-1612, the copy under the lock
RfLock ==
    /\ uiPc = "rf_lock"
    /\ CanLock(textMutex)
    /\ textMutex' = "ui"
    /\ uiPc' = "rf_text"
    /\ UNCHANGED <<sharedData, stopFlags, uiLocals, uiState, observed, fileVars, committed>>
    /\ UiFrame

RfText ==
    /\ uiPc = "rf_text"
    /\ latest' = latestText
    /\ uiPc' = "rf_ver"
    /\ UNCHANGED <<sharedData, textMutex, stopFlags, version, lines, drawText, normalized,
                   uiState, observed, fileVars, committed>>
    /\ UiFrame

RfVer ==
    /\ uiPc = "rf_ver"
    /\ version' = dataVersion
    /\ uiPc' = "rf_unlock"
    /\ UNCHANGED <<sharedData, textMutex, stopFlags, latest, lines, drawText, normalized,
                   uiState, observed, fileVars, committed>>
    /\ UiFrame

RfUnlock ==
    /\ uiPc = "rf_unlock"
    /\ textMutex' = Unlock(textMutex)
    /\ prevSnap' = [text |-> latest, version |-> version, pubs |-> Len(committed)]
    /\ uiPc' = "rf_rest"
    /\ UNCHANGED <<sharedData, stopFlags, uiLocals, uiState, narrated, speakCalls, drawn,
                   fileVars, committed>>
    /\ UiFrame

\* RefreshTextIfChanged:1613-1629, on the copies
RfRest ==
    /\ uiPc = "rf_rest"
    /\ LET lt0 == IF latest = <<>> THEN kRecordingActive ELSE latest
           lt  == IF singlePlayerMode THEN BodyOf(lt0) ELSE lt0
           changed == VersionChanged(renderedVersion, version)
       IN  /\ currentText' = IF singlePlayerMode THEN lt ELSE currentText
           /\ renderedVersion' = ConsumeVersion(renderedVersion, version)
           /\ narrated' = IF changed THEN lt ELSE narrated
           /\ speakCalls' = IF changed THEN speakCalls + 1 ELSE speakCalls
           /\ dirty' = (dirty \/ changed)
    /\ latest' = <<>> /\ version' = 0
    /\ uiPc' = "idle"
    /\ UNCHANGED <<sharedData, textMutex, stopFlags, lines, drawText, normalized,
                   scrollOffsetPx, maxScrollOffsetPx, prevSnap, drawn, fileVars, committed>>
    /\ UiFrame

\* WM_PAINT up to the copy: BeginPaint validates the window; without device
\* resources the handler returns; single-player mode resets the scroll state
UiPaint ==
    /\ uiPc = "idle"
    /\ dirty' = FALSE
    /\ \/ /\ uiPc' = "idle"
          /\ UNCHANGED <<scrollOffsetPx, maxScrollOffsetPx>>
       \/ /\ uiPc' = "pt_lock"
          /\ maxScrollOffsetPx' = IF singlePlayerMode THEN 0 ELSE maxScrollOffsetPx
          /\ scrollOffsetPx' = IF singlePlayerMode THEN 0 ELSE scrollOffsetPx
    /\ UNCHANGED <<sharedData, textMutex, stopFlags, uiLocals, renderedVersion, currentText,
                   observed, fileVars, committed>>
    /\ UiFrame

PtLock ==
    /\ uiPc = "pt_lock"
    /\ CanLock(textMutex)
    /\ textMutex' = "ui"
    /\ uiPc' = "pt_copy"
    /\ UNCHANGED <<sharedData, stopFlags, uiLocals, uiState, observed, fileVars, committed>>
    /\ UiFrame

\* drawText = s->latestText;   or   lines = s->logLines;
PtCopy ==
    /\ uiPc = "pt_copy"
    /\ IF singlePlayerMode
       THEN /\ drawText' = latestText
            /\ UNCHANGED <<lines, logLines>>
       ELSE /\ lines' = logLines
            /\ logLines' = LogAfterCopy(logLines)
            /\ UNCHANGED drawText
    /\ uiPc' = "pt_unlock"
    /\ UNCHANGED <<latestText, dataVersion, textMutex, stopFlags, latest, version, normalized,
                   uiState, observed, fileVars, committed>>
    /\ UiFrame

PtUnlock ==
    /\ uiPc = "pt_unlock"
    /\ textMutex' = Unlock(textMutex)
    /\ uiPc' = "pt_rest"
    /\ UNCHANGED <<sharedData, stopFlags, uiLocals, uiState, observed, fileVars, committed>>
    /\ UiFrame

\* what the paint lays out and draws from its copy: the lines, or the one text
PaintLines ==
    IF singlePlayerMode THEN << LogLine(<<>>, BodyOf(drawText)) >>
    ELSE IF lines = <<>> THEN << LogLine(kUnknownStamp, kRecordingActive) >>
    ELSE lines

\* WM_PAINT after the copy: the text or the log lines are laid out and drawn, and in
\* multiplayer mode the scroll range is re-derived and the offset clamped
PtRest ==
    /\ uiPc = "pt_rest"
    /\ \E row \in RowHeights, vp \in ViewportHeights :
          LET bottom == TextTop + vp
          IN  IF singlePlayerMode
              THEN /\ drawn' = [bottom |-> bottom, calls |-> DrawText(PaintLines[1], row)]
                   /\ UNCHANGED <<scrollOffsetPx, maxScrollOffsetPx>>
              ELSE \E maxScroll \in {MaxScrollFor(TotalHeight(PaintLines, row),
                                                  Max(1, bottom - TextTop))} :
                   \E offset \in {ClampScroll(scrollOffsetPx, maxScroll)} :
                      /\ maxScrollOffsetPx' = maxScroll
                      /\ scrollOffsetPx' = offset
                      /\ drawn' = [bottom |-> bottom,
                                   calls |-> DrawItems(PaintLines, row, 1, Len(PaintLines),
                                                       FirstItemBottom(bottom, offset),
                                                       bottom)]
    /\ lines' = <<>> /\ drawText' = <<>>
    /\ uiPc' = "pt_end"
    /\ UNCHANGED <<sharedData, textMutex, stopFlags, latest, version, normalized,
                   renderedVersion, currentText, dirty, narrated, speakCalls, prevSnap,
                   fileVars, committed>>
    /\ UiFrame

\* s->rt->EndDraw(); EndPaint(hwnd, &ps); return 0;
PtEnd ==
    /\ uiPc = "pt_end"
    /\ drawn' = kNothingDrawn
    /\ uiPc' = "idle"
    /\ UNCHANGED <<sharedData, textMutex, stopFlags, uiLocals, uiState, narrated, speakCalls,
                   prevSnap, fileVars, committed>>
    /\ UiFrame

\* case WM_MOUSEWHEEL (main.cpp:1760-1778): in multiplayer mode the delta is added to
\* the carry, whole notches move the offset by kWheelStepPx each, the offset is
\* clamped and the window invalidated; in single-player mode DefWindowProc takes it
WheelEvent ==
    /\ uiPc = "idle"
    /\ wheelEvents < MaxWheels
    /\ wheelEvents' = wheelEvents + 1
    /\ \E delta \in WheelDeltas :
          IF WheelHandled(singlePlayerMode)
          THEN LET steps == WheelStepsOf(wheelRemainder, delta)
               IN  /\ wheelRemainder' = WheelRemainderAfter(wheelRemainder, delta)
                   /\ wheelSum' = wheelSum + delta
                   /\ wheelSteps' = wheelSteps + steps
                   /\ scrollOffsetPx' =
                         IF steps # 0
                         THEN ClampScroll(scrollOffsetPx + (steps * kWheelStepPx),
                                          maxScrollOffsetPx)
                         ELSE scrollOffsetPx
                   /\ dirty' = (dirty \/ steps # 0)
          ELSE UNCHANGED <<wheelRemainder, wheelSum, wheelSteps, scrollOffsetPx, dirty>>
    /\ UNCHANGED <<sharedData, textMutex, stopFlags, subVars, netVars, singlePlayerMode,
                   uiPc, uiLocals, renderedVersion, currentText, maxScrollOffsetPx,
                   observed, zoomVars, rcWork, setArg, fileVars, capPc, pubThreads,
                   published,
                   committed>>

\* kAdjustFontMsg and Ctrl +/- (main.cpp:1742-1757): AdjustFontSizes(s, delta, hwnd)
\* with delta # 0; a size that does not change returns early, and so does a failed
\* RebuildTextFormats, after the size was stored and before the window is resized
AdjustFontSizes(Deltas) ==
    /\ uiPc = "idle"
    /\ \E delta \in Deltas, rebuilt \in BOOLEAN :
          LET nextMain == NextMainFontSize(mainFontSize, delta)
          IN  /\ zoomIns' = IF delta = 1 /\ zoomIns >= 0 /\ zoomIns < MaxZooms
                            THEN zoomIns + 1 ELSE -1
              /\ mainFontSize' = nextMain
              /\ IF nextMain # mainFontSize /\ rebuilt
                 THEN /\ windowSize' = WindowSizeForFont(nextMain, rcWork)
                      /\ dirty' = TRUE
                 ELSE UNCHANGED <<windowSize, dirty>>
    /\ UNCHANGED <<sharedData, textMutex, stopFlags, subVars, netVars, singlePlayerMode,
                   uiPc, uiLocals, renderedVersion, currentText, scrollOffsetPx,
                   maxScrollOffsetPx, observed, wheelVars, rcWork, setArg, fileVars, capPc,
                   pubThreads, published, committed>>

\* what a step of the capture thread leaves alone: it holds no reference to the text
CapFrame ==
    UNCHANGED <<sharedData, textMutex, stopFlags, subVars, netVars, singlePlayerMode,
                uiVars, inputVars, fileVars, pubThreads, published, committed>>

\* while (!state->stopCapture.load())
CaptureContinues(stop) == ~stop

\* CaptureLoop: the loop test (main.cpp:1447)
CaptureCheck ==
    /\ capPc = "test"
    /\ capPc' = IF CaptureContinues(stopCapture) THEN "upload" ELSE "done"
    /\ CapFrame

\* CaptureLoop: one capture and upload, then the wait of kCaptureIntervalMs in
\* Sleep(100) slices that ends early under stopCapture (main.cpp:1448-1462)
CaptureUpload ==
    /\ capPc = "upload"
    /\ capPc' = "test"
    /\ CapFrame

CapNext == CaptureCheck \/ CaptureUpload

\* the message loop ends: stopSub.store(true); stopCapture.store(true) (main.cpp:2187-2188)
UiQuit ==
    /\ uiPc = "idle"
    /\ stopSub' = TRUE
    /\ stopCapture' = TRUE
    /\ uiPc' = "stopping"
    /\ UNCHANGED <<sharedData, textMutex, uiLocals, uiState, observed, fileVars, committed>>
    /\ UiFrame

\* subThread.join() and captureThread.join() return once the loops have returned
\* (main.cpp:2189-2194); a thread that was never started is not joinable
UiJoin ==
    /\ uiPc = "stopping"
    /\ JoinReturns(subPc)
    /\ JoinReturns(capPc)
    /\ uiPc' = "exited"
    /\ UNCHANGED <<sharedData, textMutex, stopFlags, uiLocals, uiState, observed, fileVars,
                   committed>>
    /\ UiFrame

UiNext ==
    \/ TimerTick
    \/ RfLock
    \/ RfText
    \/ RfVer
    \/ RfUnlock
    \/ RfRest
    \/ UiPaint
    \/ PtLock
    \/ PtCopy
    \/ PtUnlock
    \/ PtRest \/ PtEnd

(***************************************************************************)
(* Single-player mode: PollInputFile, SubmitInput -> SetLatestText, and    *)
(* the external writer of the input file                                   *)
(***************************************************************************)
PollFailedPc_FallsThrough == "poll_lock"

\* PollInputFile:1373-1375 and 1378-1380: return; the tick goes on with the refresh
PollFailedPc == "rf_lock"

\* PollInputFile:1370-1384  the file is read in full, or the poll returns
PollRead ==
    /\ uiPc = "poll"
    /\ \/ /\ uiPc' = PollFailedPc
          /\ lastPolled' = [lastPolled EXCEPT !.missed = TRUE]
          /\ UNCHANGED normalized
       \/ /\ normalized' = BodyOf(Utf8ToWide(fileText))
          /\ lastPolled' = [lastPolled EXCEPT !.missed = FALSE]
          /\ uiPc' = "poll_lock"
    /\ UNCHANGED <<sharedData, textMutex, stopFlags, latest, version, lines, drawText,
                   uiState, observed, fileText, inputs, committed>>
    /\ UiFrame

PollLock ==
    /\ uiPc = "poll_lock"
    /\ CanLock(textMutex)
    /\ textMutex' = "ui"
    /\ uiPc' = "poll_cmp"
    /\ UNCHANGED <<sharedData, stopFlags, uiLocals, uiState, observed, fileVars, committed>>
    /\ UiFrame

\* if (normalized != s.latestText) { s.latestText = normalized; ...
PollCmp ==
    /\ uiPc = "poll_cmp"
    /\ IF PollPublishes(normalized, latestText)
       THEN latestText' = normalized /\ uiPc' = "poll_ver"
       ELSE UNCHANGED latestText /\ uiPc' = "poll_unlock"
    /\ UNCHANGED <<logLines, dataVersion, textMutex, stopFlags, uiLocals, uiState, observed,
                   fileVars, committed>>
    /\ UiFrame

\* ... s.dataVersion += 1; }
PollVer ==
    /\ uiPc = "poll_ver"
    /\ dataVersion' = NextVersion(dataVersion)
    /\ committed' = Append(committed, [text |-> latestText, version |-> dataVersion',
                                        pubs |-> Len(published)])
    /\ uiPc' = "poll_unlock"
    /\ UNCHANGED <<latestText, logLines, textMutex, stopFlags, uiLocals, uiState, observed,
                   fileVars>>
    /\ UiFrame

PollUnlock ==
    /\ uiPc = "poll_unlock"
    /\ textMutex' = Unlock(textMutex)
    /\ normalized' = <<>>
    /\ lastPolled' = [lastPolled EXCEPT !.valid = TRUE, !.text = normalized]
    /\ uiPc' = "rf_lock"
    /\ UNCHANGED <<sharedData, stopFlags, latest, version, lines, drawText, uiState,
                   observed, fileText, inputs, committed>>
    /\ UiFrame

\* kSubmitInputMsg in single-player mode: the text is appended to the output file,
\* and a failed write reports through SetLatestText
SubmitInput ==
    /\ uiPc = "idle"
    /\ singlePlayerMode
    /\ inputs < MaxInputs
    /\ inputs' = inputs + 1
    /\ \/ uiPc' = "idle" /\ UNCHANGED setArg
       \/ uiPc' = "set_lock" /\ setArg' = kPubTextError
    /\ UNCHANGED <<sharedData, textMutex, stopFlags, uiLocals, uiState, observed, fileText,
                   lastPolled, committed>>
    /\ UNCHANGED <<singlePlayerMode, subVars, netVars, wheelVars, zoomVars, rcWork, capPc,
                   pubThreads, published>>

\* SetLatestText(s, text) called with any text of Texts
SetLatestTextCall(Texts) ==
    /\ uiPc = "idle"
    /\ singlePlayerMode
    /\ inputs < MaxInputs
    /\ inputs' = inputs + 1
    /\ \E text \in Texts : setArg' = text
    /\ uiPc' = "set_lock"
    /\ UNCHANGED <<sharedData, textMutex, stopFlags, uiLocals, uiState, observed, fileText,
                   lastPolled, committed>>
    /\ UNCHANGED <<singlePlayerMode, subVars, netVars, wheelVars, zoomVars, rcWork, capPc,
                   pubThreads, published>>

\* SetLatestText (main.cpp:756-760), statement by statement
SetLock ==
    /\ uiPc = "set_lock"
    /\ CanLock(textMutex)
    /\ textMutex' = "ui"
    /\ uiPc' = "set_text"
    /\ UNCHANGED <<sharedData, stopFlags, uiLocals, uiState, observed, fileVars, committed>>
    /\ UiFrame

SetText ==
    /\ uiPc = "set_text"
    /\ latestText' = SetLatestValue(setArg)
    /\ uiPc' = "set_ver"
    /\ UNCHANGED <<logLines, dataVersion, textMutex, stopFlags, uiLocals, uiState, observed,
                   fileVars, committed>>
    /\ UiFrame

SetVer ==
    /\ uiPc = "set_ver"
    /\ dataVersion' = NextVersion(dataVersion)
    /\ uiPc' = "set_unlock"
    /\ UNCHANGED <<latestText, logLines, textMutex, stopFlags, uiLocals, uiState, observed,
                   fileVars, committed>>
    /\ UiFrame

SetUnlock ==
    /\ uiPc = "set_unlock"
    /\ textMutex' = Unlock(textMutex)
    /\ committed' = Append(committed, Snapshot)
    /\ setArg' = <<>>
    /\ uiPc' = "idle"
    /\ UNCHANGED <<sharedData, stopFlags, uiLocals, uiState, observed, fileVars>>
    /\ UNCHANGED <<singlePlayerMode, subVars, netVars, wheelVars, zoomVars, rcWork, capPc,
                   pubThreads, published>>

\* another process rewrites the input file
FileWrite ==
    /\ singlePlayerMode
    /\ inputs < MaxInputs
    /\ inputs' = inputs + 1
    /\ \E c \in FileContents \ {fileText} : fileText' = c
    /\ UNCHANGED <<sharedData, textMutex, stopFlags, uiVars, lastPolled, committed>>
    /\ UiFrame

SingleNext ==
    \/ PollRead
    \/ PollLock
    \/ PollCmp
    \/ PollVer
    \/ PollUnlock
    \/ SubmitInput
    \/ SetLock
    \/ SetText
    \/ SetVer
    \/ SetUnlock
    \/ FileWrite

(***************************************************************************)
(* Specifications                                                          *)
(***************************************************************************)
\* the whole program, either mode, from construction to shutdown
Next ==
    \/ UiStartup
    \/ SubInit
    \/ SubNext(ConcStreams, TRUE)
    \/ UiNext
    \/ SingleNext
    \/ CapNext
    \/ UiQuit
    \/ UiJoin

Spec == Init /\ [][Next]_vars

\* the program while it runs: every handler but the shutdown
RunNext ==
    \/ UiStartup
    \/ SubInit
    \/ SubNext(ConcStreams, TRUE)
    \/ UiNext
    \/ SingleNext
    \/ CapNext

\* a step the UI thread takes inside a handler, once the handler has begun
UiContinue ==
    \/ UiStartup
    \/ RfLock \/ RfText \/ RfVer \/ RfUnlock \/ RfRest
    \/ PtLock \/ PtCopy \/ PtUnlock \/ PtRest \/ PtEnd
    \/ PollRead \/ PollLock \/ PollCmp \/ PollVer \/ PollUnlock
    \/ SetLock \/ SetText \/ SetVer \/ SetUnlock

\* a step of the subscriber thread while it holds textMutex
SubLocked == AppPush \/ AppPop \/ AppText \/ AppVer \/ AppUnlock

\* wWinMain before the threads are started, in a run in which the network grants the
\* subscriber one connection
InitLive ==
    /\ InitCommon
    /\ InitWindow(kDefaultMonitor)
    /\ singlePlayerMode \in BOOLEAN
    /\ fileText \in (IF singlePlayerMode THEN FileContents ELSE {<<>>})
    /\ connects = MaxConnects - 1
    /\ subPc = "none"
    /\ uiPc = "start"

\* The running program under the scheduling the code relies on: the 100 ms timer
\* (SetTimer, main.cpp:1645) keeps firing while the message loop runs, a handler
\* that has begun runs on, and a thread holding textMutex runs until it releases it.
SpecLive ==
    /\ InitLive
    /\ [][RunNext]_vars
    /\ SF_vars(TimerTick)
    /\ WF_vars(UiContinue)
    /\ WF_vars(SubLocked)

\* kSubmitInputMsg in multiplayer mode: SubmitInput starts a detached thread that
\* posts the text (main.cpp:1414-1417) and returns
SubmitInputPost ==
    /\ uiPc = "idle"
    /\ ~singlePlayerMode
    /\ inputs < MaxInputs
    /\ inputs' = inputs + 1
    /\ pubThreads' = pubThreads + 1
    /\ UNCHANGED <<sharedData, textMutex, stopFlags, subVars, netVars, singlePlayerMode,
                   uiVars, inputVars, fileText, lastPolled, capPc, published, committed>>

\* PostPubText returns and the detached thread ends; it has touched no AppState
PostPubTextReturns ==
    /\ pubThreads > 0
    /\ pubThreads' = pubThreads - 1
    /\ UNCHANGED <<sharedData, textMutex, stopFlags, subVars, netVars, singlePlayerMode,
                   uiVars, inputVars, fileVars, capPc, published, committed>>

\* the whole program with the text submissions of multiplayer mode
StopNext ==
    \/ Next
    \/ SubmitInputPost
    \/ PostPubTextReturns

\* a step of the subscriber thread
SubStep == SubInit \/ SubNext(ConcStreams, TRUE)

\* The program from start-up to shutdown, in a run in which the network grants one
\* connection, every call the subscriber blocks in returns, and a handler that has
\* begun runs on.
SpecStop ==
    /\ InitLive
    /\ [][StopNext]_vars
    /\ WF_vars(SubStep)
    /\ WF_vars(UiContinue)

\* the two zoom requests that cross the whole range of sizes
kZoomJumps == {50, -50}

\* wWinMain has started the program and the first tick is over: the subscriber, if
\* there is one, is about to connect for the one connection of the run
InitScroll ==
    /\ InitCommon
    /\ InitWindow(kDefaultMonitor)
    /\ singlePlayerMode \in BOOLEAN
    /\ fileText = <<>>
    /\ connects = MaxConnects - 1
    /\ subPc = IF singlePlayerMode THEN "none" ELSE "outer"
    /\ uiPc = "idle"

\* the log grows while the timer ticks, the user turns the wheel and zooms, and the
\* window is painted
ScrollNext ==
    \/ SubNext(ConcStreams, TRUE)
    \/ UiNext
    \/ WheelEvent
    \/ AdjustFontSizes(kZoomJumps)

SpecScroll == InitScroll /\ [][ScrollNext]_vars

\* A single-player run on any of the monitors, after the first tick: the input file
\* is empty and stays so, the user zooms and the window is painted.
InitZoom ==
    /\ InitCommon
    /\ \E work \in Monitors : InitWindow(work)
    /\ singlePlayerMode = TRUE
    /\ fileText = <<>>
    /\ connects = 0
    /\ subPc = "none"
    /\ uiPc = "idle"

ZoomNext ==
    \/ AdjustFontSizes(ZoomDeltas)
    \/ UiPaint \/ PtLock \/ PtCopy \/ PtUnlock \/ PtRest \/ PtEnd

SpecZoom == InitZoom /\ [][ZoomNext]_vars

\* the decimal digits of n > 0
RECURSIVE DecChars(_)
DecChars(n) ==
    IF n < 10 THEN <<DigitChars[n + 1]>>
    ELSE DecChars(n \div 10) \o <<DigitChars[(n % 10) + 1]>>

\* the log after the lines "1", "2", ..., "n" were published without an id, n below
\* the capacity: n pushes and no eviction
LogAfter(n) == [i \in 1..n |-> LogLine(kUnknownStamp, BodyOf(DecChars(i)))]

\* dataVersion after n publishes
VersionAfter(n) == n

\* A multiplayer run one line short of a full log: kLogCapacity - 1 events with the
\* texts "1", "2", ... have been published and rendered, the stream has ended and
\* the subscriber is about to reconnect for the last connection of the run.
InitLog ==
    LET k == kLogCapacity - 1
    IN  /\ latestText = BodyOf(DecChars(k))
        /\ logLines = LogAfter(k)
        /\ dataVersion = VersionAfter(k)
        /\ published = LogAfter(k)
        /\ committed = << [text |-> BodyOf(DecChars(k)), version |-> VersionAfter(k),
                           pubs |-> k] >>
        /\ renderedVersion = VersionAfter(k)
        /\ narrated = BodyOf(DecChars(k))
        /\ speakCalls = 1
        /\ prevSnap = [text |-> BodyOf(DecChars(k)), version |-> VersionAfter(k), pubs |-> 1]
        /\ drawn = kNothingDrawn
        /\ dirty = TRUE
        /\ textMutex = "free"
        /\ stopSub = FALSE
        /\ stopCapture = FALSE
        /\ capPc = "none"
        /\ subPc = "outer" /\ subRet = "none" /\ sleepMs = 0
        /\ buf = <<>> /\ line = <<>> /\ eventId = <<>> /\ eventText = <<>>
        /\ hasText = FALSE
        /\ appStamp = <<>> /\ appBody = <<>>
        /\ wire = <<>> /\ sent = <<>> /\ connBase = k
        /\ dropped = [buf |-> <<>>, id |-> <<>>]
        /\ readsAfterStop = 0
        /\ connects = MaxConnects - 1
        /\ singlePlayerMode = FALSE
        /\ uiPc = "idle"
        /\ latest = <<>> /\ version = 0 /\ lines = <<>> /\ drawText = <<>>
        /\ normalized = <<>>
        /\ currentText = kRecordingActive
        /\ scrollOffsetPx = 0 /\ maxScrollOffsetPx = 0
        /\ wheelRemainder = 0 /\ wheelEvents = 0 /\ wheelSum = 0 /\ wheelSteps = 0
        /\ setArg = <<>>
        /\ mainFontSize = kFontSize /\ zoomIns = 0
        /\ InitWindow(kDefaultMonitor)
        /\ fileText = <<>> /\ inputs = 0
        /\ lastPolled = [valid |-> FALSE, text |-> <<>>, missed |-> FALSE]
        /\ pubThreads = 0

LogNext ==
    \/ SubNext(ConcStreams, TRUE)
    \/ UiNext

SpecLog == InitLog /\ [][LogNext]_vars

\* The subscriber alone, started in multiplayer mode, with one connection to come
\* whose stream and chunking are arbitrary.
InitParse ==
    /\ InitCommon
    /\ InitWindow(kDefaultMonitor)
    /\ singlePlayerMode = FALSE
    /\ fileText = <<>>
    /\ connects = MaxConnects - 1
    /\ subPc = "outer"
    /\ uiPc = "idle"

ParseNext == SubNext(ParseStreams, FALSE)

SpecParse == InitParse /\ [][ParseNext]_vars

\* The subscriber alone on one connection that carries any lines of LineAlphabet,
\* read in chunks of whole lines.
LinesNext == SubNext(LineStreams, TRUE)

SpecLines == InitParse /\ [][LinesNext]_vars

\* Two connections in a row, each carrying the event (7, a) or the lone text line b,
\* read in chunks cut anywhere and broken off anywhere
ReconnectStreams == { << Event(<<"7">>, <<"a">>) >>, << RawLine(kLineTextB) >> }

InitReconnect ==
    /\ InitCommon
    /\ InitWindow(kDefaultMonitor)
    /\ singlePlayerMode = FALSE
    /\ fileText = <<>>
    /\ connects = MaxConnects - 2
    /\ subPc = "outer"
    /\ uiPc = "idle"

ReconnectNext == SubNext(ReconnectStreams, FALSE)

SpecReconnect == InitReconnect /\ [][ReconnectNext]_vars

\* what the three writers are handed in SpecWriters: nothing, a blank, a plain text,
\* and a text with white space around it
WriterTexts == { <<>>, <<" ">>, <<"a">>, <<" ", "a", "\n">> }

\* every writer of latestText with every input: in multiplayer mode one event of
\* StampStreams, in single-player mode a file holding any of WriterTexts and
\* SetLatestText called with any of them, with the timer ticking
InitWriters ==
    /\ InitCommon
    /\ InitWindow(kDefaultMonitor)
    /\ singlePlayerMode \in BOOLEAN
    /\ fileText \in (IF singlePlayerMode THEN WriterTexts ELSE {<<>>})
    /\ connects = MaxConnects - 1
    /\ subPc = IF singlePlayerMode THEN "none" ELSE "outer"
    /\ uiPc = "idle"

WritersNext ==
    \/ SubNext(StampStreams, TRUE)
    \/ TimerTick \/ RfLock \/ RfText \/ RfVer \/ RfUnlock \/ RfRest
    \/ PollRead \/ PollLock \/ PollCmp \/ PollVer \/ PollUnlock
    \/ SetLatestTextCall(WriterTexts)
    \/ SetLock \/ SetText \/ SetVer \/ SetUnlock

SpecWriters == InitWriters /\ [][WritersNext]_vars

\* one connection carrying one event, its id any of StampIds, its text any of BodyTexts
StampNext == SubNext(StampStreams, TRUE)

SpecStamp == InitParse /\ [][StampNext]_vars

(***************************************************************************)
(* Properties of the shared display state                                  *)
(***************************************************************************)
\* the positions at which the UI thread holds a finished copy of (latestText, dataVersion)
\* and of logLines
kSnapshotTaken == {"rf_unlock", "rf_rest"}
kLogCopied == {"pt_unlock", "pt_rest"}

\* C1: whatever the interleaving of AppendLiveLogLine with the readers, the log a
\* paint has copied never holds more than 400 entries, and neither does the shared
\* log whenever the subscriber is outside its critical section.
C1_LogCopyWithinCapacity ==
    /\ Len(lines) <= kLogCapacity
    /\ (textMutex # "sub" => Len(logLines) <= kLogCapacity)

\* a paint holds a copy of a full log after more than 400 lines were appended
C1_Witness ==
    /\ uiPc \in kLogCopied
    /\ Len(lines) = kLogCapacity
    /\ Len(published) > kLogCapacity

\* C2: the log is FIFO and never reordered: after n appends it is the last
\* min(n, 400) appended lines in append order, in the shared state between appends
\* and in every copy a paint has taken.
C2_LogIsLastAppended ==
    /\ (textMutex # "sub" => logLines = LastN(published, kLogCapacity))
    /\ (uiPc \in kLogCopied =>
           \E n \in Len(lines)..Len(published) :
              lines = LastN(SubSeq(published, 1, n), kLogCapacity))

\* 401 lines with distinct texts were appended: the log holds 400, the first appended
\* is gone and the other 400 are there in their order
C2_Witness ==
    /\ textMutex = "free"
    /\ Len(published) = kLogCapacity + 1
    /\ \A i, j \in {1, 2, kLogCapacity, kLogCapacity + 1} :
          i # j => published[i].text # published[j].text
    /\ Len(logLines) = kLogCapacity
    /\ \A i \in 1..kLogCapacity : logLines[i] = published[i + 1]
    /\ \A i \in 1..kLogCapacity : logLines[i] # published[1]

\* C3: dataVersion never decreases or resets, and every completed publish
\* (AppendLiveLogLine, SetLatestText, a publishing PollInputFile) leaves a version
\* strictly above the one the publish before it left.
C3_VersionStrictlyIncreasing ==
    [][ /\ dataVersion' >= dataVersion
        /\ (Len(committed') > Len(committed) =>
               committed'[Len(committed')].version > committed[Len(committed)].version)
      ]_vars

\* a publishing PollInputFile followed by a SetLatestText
C3_Witness ==
    /\ singlePlayerMode
    /\ Len(committed) = 3
    /\ committed[2].text # kPubTextError
    /\ committed[3].text = kPubTextError
    /\ committed[2].version = 1
    /\ committed[3].version = 2

\* C4: each completed publish raises dataVersion by exactly one when it changed
\* latestText or the log, and leaves dataVersion as it was when it changed neither.
C4_VersionCountsMutations ==
    \A i \in 1..(Len(committed) - 1) :
       LET before == committed[i]
           after  == committed[i + 1]
       IN  IF after.text # before.text \/ after.pubs # before.pubs
           THEN after.version = before.version + 1
           ELSE after.version = before.version

\* C5: the (latestText, dataVersion) pair RefreshTextIfChanged has copied is a pair
\* some completed publish left behind, and the log a paint has copied is the log as
\* it stood after some whole number of appends.
C5_NoTornRead ==
    /\ (uiPc \in kSnapshotTaken =>
           \E i \in 1..Len(committed) :
              committed[i].text = latest /\ committed[i].version = version)
    /\ (uiPc \in kLogCopied =>
           \E n \in Len(lines)..Len(published) :
              lines = LastN(SubSeq(published, 1, n), kLogCapacity))

\* the UI thread has taken its snapshot under the lock while the subscriber waits
\* at the lock with an event to publish
C5_Witness ==
    /\ uiPc = "rf_unlock"
    /\ textMutex = "ui"
    /\ subPc = "app_lock"
    /\ latest = latestText
    /\ version = dataVersion

\* the positions of RefreshTextIfChanged and of WM_PAINT
kReaderPcs ==
    {"rf_lock", "rf_text", "rf_ver", "rf_unlock", "rf_rest",
     "pt_lock", "pt_copy", "pt_unlock", "pt_rest", "pt_end"}

\* C6: no step of RefreshTextIfChanged or of the paint changes latestText, logLines
\* or dataVersion, and a snapshot taken with no publish since the snapshot before
\* it returns the same text and the same version.
C6_ReadsAreSideEffectFree ==
    [][ /\ ((uiPc \in kReaderPcs /\ uiPc' # uiPc) => UNCHANGED sharedData)
        /\ ((uiPc = "idle" /\ uiPc' = "pt_lock") => UNCHANGED sharedData)
        /\ ((uiPc = "rf_unlock" /\ uiPc' = "rf_rest" /\ prevSnap.pubs = Len(committed)) =>
               (latest = prevSnap.text /\ version = prevSnap.version))
      ]_vars

\* a second snapshot is complete, after at least one publish, and nothing was
\* published since the first
C6_Witness ==
    /\ uiPc = "rf_unlock"
    /\ dataVersion > 0
    /\ prevSnap.pubs = Len(committed)
    /\ latest = prevSnap.text
    /\ version = prevSnap.version

\* C7: renderedVersion never exceeds dataVersion and never decreases, also when
\* several publishes fall between two ticks.
C7_RenderedVersionMonotone ==
    /\ [](renderedVersion <= dataVersion)
    /\ [][renderedVersion' >= renderedVersion]_vars

\* one tick consumed version 2 directly: version 1 was skipped
C7_Witness ==
    /\ speakCalls = 1
    /\ renderedVersion = 2
    /\ dataVersion = 2

\* no run publishes more often than this: two events per connection, one publish per
\* external input, and the poll of wWinMain
MaxVersion == 2 * MaxConnects + MaxInputs + 1

\* the text the newest painted line shows
PaintedText == PaintLines[Len(PaintLines)].text

\* C8: while the timer keeps ticking, every published version v is followed by a
\* tick that consumes a version >= v; and once publishes have ceased,
\* renderedVersion settles at dataVersion, with the text handed to narration and
\* the text a paint draws equal to the final latestText.
C8_LastValueDelivered ==
    /\ \A v \in 1..MaxVersion : (dataVersion >= v) ~> (renderedVersion >= v)
    /\ <>[](/\ renderedVersion = dataVersion
            /\ (dataVersion > 0 => narrated = latestText)
            /\ ((dataVersion > 0 /\ uiPc = "pt_rest") => PaintedText = latestText))

\* two publishes were consumed by one tick, which handed the second text on
C8_Witness ==
    /\ dataVersion = 2
    /\ renderedVersion = 2
    /\ speakCalls = 1
    /\ narrated = latestText
    /\ uiPc = "idle"

(***************************************************************************)
(* Properties of the event-stream parser                                   *)
(***************************************************************************)
\* the positions of SubscribeLoop between two lines of a connection
kBetweenLines == {"lines", "readchk", "recv", "final", "close"}

\* the bytes of the connection the line loop has consumed
Consumed ==
    SubSeq(WireOf(sent), 1, Len(WireOf(sent)) - Len(wire) - Len(buf))

\* how many leading events of items have their text line within the first n bytes
RECURSIVE TextLinesWithin(_, _)
TextLinesWithin(items, n) ==
    IF items = <<>> THEN 0
    ELSE LET ls   == ItemLines(Head(items))
             upto == Len(ls[1]) + 1 + Len(ls[2]) + 1
         IN  IF n < upto THEN 0
             ELSE 1 + TextLinesWithin(Tail(items), n - Len(JoinLines(ls)))

\* the log line an event is to become: stamped from its id, its text as sent
ExpectedLine(item) ==
    LogLine(IF item.id = <<>> THEN kUnknownStamp ELSE HumanTimeFromUnixText(item.id),
            IF DecodeUtf8(item.text) = <<>> THEN kRecordingActive ELSE DecodeUtf8(item.text))

\* C9: of a well-formed stream of id / data: text / blank lines on one connection,
\* the events whose text line has been processed are published exactly once each,
\* in arrival order, stamped from their id and with every backslash-n of the wire
\* turned back into the newline the text had.
C9_EventsPublishedOnceInOrder ==
    subPc \in kBetweenLines =>
       LET n == TextLinesWithin(sent, Len(Consumed))
       IN  /\ Len(published) = connBase + n
           /\ \A j \in 1..n : published[connBase + j] = ExpectedLine(sent[j])
           /\ logLines = published

\* the scenario: id 1700000000, data: text: hello\nworld, blank -> one log line,
\* stamped 23:13:20 (22:13:20 UTC, one hour east), holding the two-line text
C9_Witness ==
    /\ subPc = "close"
    /\ sent = << Event(kScenarioId, kScenarioText) >>
    /\ wire = <<>> /\ buf = <<>>
    /\ Len(logLines) = 1
    /\ logLines[1].hhmmss = <<"2","3",":","1","3",":","2","0">>
    /\ logLines[1].text = <<"h","e","l","l","o","\n","w","o","r","l","d">>
    /\ latestText = logLines[1].text

\* the complete lines of a byte string, carriage returns stripped
RECURSIVE CompleteLines(_)
CompleteLines(bytes) ==
    LET nl == FindFrom(bytes, <<"\n">>, 0)
    IN  IF nl = -1 THEN <<>>
        ELSE <<StripCr(SubSeq(bytes, 1, nl))>> \o CompleteLines(SubstrFrom(bytes, nl + 1))

\* how many of the lines consumed so far were data lines with key text
TextLinesConsumed ==
    Cardinality({i \in 1..Len(CompleteLines(Consumed)) :
                    ParseLine(CompleteLines(Consumed)[i]).kind = "text"})

\* C10: between any two lines, every text line processed so far has already been
\* published (one log line and one version each) and no event is left pending, so
\* the blank line that follows finds nothing to publish.
C10_EagerFlush ==
    subPc \in kBetweenLines =>
       /\ ~hasText
       /\ eventText = <<>>
       /\ Len(published) = connBase + TextLinesConsumed
       /\ Len(logLines) = TextLinesConsumed
       /\ dataVersion = TextLinesConsumed

\* the text line has been processed and published; its blank line has not arrived
C10_Witness ==
    /\ subPc = "readchk"
    /\ ParseLine(line).kind = "text"
    /\ buf = <<>>
    /\ wire = <<"\n">>
    /\ Len(sent) = 1
    /\ Len(logLines) = 1
    /\ dataVersion = 1

\* a turn of the line loop that extracts a line (the line is line')
ExtractsLine == subPc = "lines" /\ buf' # buf

\* C11: an event with an id and no text is never published: processing an id line
\* or a blank line, or reaching the end of the stream, starts no publish and
\* leaves latestText, logLines and dataVersion as they were; what has been
\* published is one line per text line consumed.
C11_IdOnlyNeverPublished ==
    /\ [][ /\ ((ExtractsLine /\ ParseLine(line').kind \in {"id", "blank"}) =>
                  (subPc' = "lines" /\ UNCHANGED <<sharedData, published>>))
           /\ (subPc = "final" =>
                  (subPc' = "close" /\ UNCHANGED <<sharedData, published>>))
         ]_vars
    /\ [](subPc \in kBetweenLines =>
             (Len(published) = connBase + TextLinesConsumed
              /\ dataVersion = TextLinesConsumed))

\* id 7, a blank line, id 8 and the end of the stream: nothing was published
C11_Witness ==
    /\ subPc = "close"
    /\ CompleteLines(Consumed) = <<kLineId7, <<>>, kLineId8>>
    /\ wire = <<>> /\ buf = <<>>
    /\ published = <<>>
    /\ logLines = <<>>
    /\ dataVersion = 0

\* the text lines among the lines consumed so far, in order
TextLinesSeen ==
    SelectSeq(CompleteLines(Consumed), LAMBDA l : l \in {kLineTextA, kLineTextB})

\* the text a text line of LineAlphabet carries
TextValueOf(l) == IF l = kLineTextA THEN <<"a">> ELSE <<"b">>

\* C12: of several text lines, with or without an id or blank line between them,
\* the last one wins: between lines latestText is the value of the last text line
\* processed, and so is the newest log line's text.
C12_LastTextWins ==
    (subPc \in kBetweenLines /\ TextLinesSeen # <<>>) =>
       /\ latestText = TextValueOf(TextLinesSeen[Len(TextLinesSeen)])
       /\ logLines[Len(logLines)].text = latestText

\* id 7, then the text lines a and b with nothing between them: latestText is b
C12_Witness ==
    /\ subPc \in kBetweenLines
    /\ CompleteLines(Consumed) = <<kLineId7, kLineTextA, kLineTextB>>
    /\ latestText = <<"b">>
    /\ Len(logLines) = 2
    /\ logLines[1].text = <<"a">>

\* what a sequence of whole lines publishes, line by line, with id the pending id:
\* the reference the chunked parser is compared with
RECURSIVE PublishedBy(_, _)
PublishedBy(ls, id) ==
    IF ls = <<>> THEN <<>>
    ELSE LET p == ParseLine(Head(ls))
         IN  CASE p.kind = "text" ->
                     << LogLine(HumanTimeFromUnixText(id), BodyOf(Utf8ToWide(p.value))) >>
                        \o PublishedBy(Tail(ls), <<>>)
               [] p.kind = "id" -> PublishedBy(Tail(ls), p.value)
               [] p.kind = "blank" -> PublishedBy(Tail(ls), <<>>)
               [] OTHER -> PublishedBy(Tail(ls), id)

\* the lines this connection has published
PublishedHere == SubSeq(published, connBase + 1, Len(published))

\* C13: however the bytes of a connection are split into chunks, no byte is lost (the
\* bytes consumed, the buffer and the bytes not yet read make up the stream, and
\* between reads the buffer holds only an unfinished line) and the lines published
\* are those the whole lines consumed so far publish, in the same order.
C13_ChunkingIndependent ==
    subPc \in kBetweenLines =>
       /\ SubstrFrom(WireOf(sent), Len(Consumed)) = buf \o wire
       /\ (subPc \in {"readchk", "recv"} => FindFrom(buf, <<"\n">>, 0) = -1)
       /\ PublishedHere = PublishedBy(CompleteLines(Consumed), <<>>)

\* one event is published and the read of the next one's text line ended inside
\* the two-byte character: the unfinished line waits in the buffer
C13_Witness ==
    /\ subPc = "readchk"
    /\ Len(PublishedHere) = 1
    /\ Len(buf) > Len(kDataPrefix)
    /\ StartsWith(buf, kDataPrefix)
    /\ buf[Len(buf)] = "xC3"
    /\ wire # <<>> /\ Head(wire) = "xA9"

\* C14: a line that begins with neither id: nor data:, a data: line without a
\* colon in its payload and a data: line with a key other than text start no
\* publish, leave the pending event (its id included) and the shared state as they
\* were, and the line loop goes on with the next line.
C14_IgnoredLinesHaveNoEffect ==
    [][ (ExtractsLine /\ line' \in IgnoredLines) =>
           /\ subPc' = "lines"
           /\ UNCHANGED <<eventId, eventText, hasText, sharedData, published>>
      ]_vars

\* id 7, a data line with another key, then the text line: the text was published
\* under the id that was pending before the ignored line
C14_Witness ==
    /\ subPc \in kBetweenLines
    /\ CompleteLines(Consumed) = <<kLineId7, kLineOtherKey, kLineTextA>>
    /\ Len(PublishedHere) = 1
    /\ PublishedHere[1] = LogLine(<<"0","1",":","0","0",":","0","7">>, <<"a">>)

(***************************************************************************)
(* Properties of the stream client's life cycle                            *)
(***************************************************************************)
\* C15: SubscribeLoop reaches its terminal state only by the stop signal: whenever
\* it has returned, stopSub is set (stopSub is never cleared once set).
C15_ReturnsOnlyWhenStopped ==
    subPc = "done" => stopSub

\* C16: inside the reconnect loop every failure is retried after a fixed delay and
\* the client never gives up: a failed connect leads to a 1000 ms sleep, a stream
\* that ended while stop is not set to a 500 ms sleep, whatever happened before; a
\* sleep leads back to the loop test; a connect is attempted only from the loop
\* test, which is reached only from the start, from a sleep or from a stream closed
\* under stop; and the loop is left only when stopSub is set.
C16_FixedDelayRetry ==
    [][ /\ ((subPc = "connect" /\ subPc' # "connect") =>
               (subPc' = "readchk" \/ (subPc' = "sleep" /\ sleepMs' = 1000)))
        /\ ((subPc = "close" /\ subPc' # "close" /\ ~stopSub) =>
               (subPc' = "sleep" /\ sleepMs' = 500))
        /\ ((subPc = "sleep" /\ subPc' # "sleep") => subPc' = "outer")
        /\ ((subPc' = "connect" /\ subPc # "connect") => (subPc = "outer" /\ ~stopSub))
        /\ ((subPc' = "outer" /\ subPc # "outer") =>
               (subPc \in {"init", "sleep"} \/ (subPc = "close" /\ stopSub)))
        /\ ((subPc' = "done" /\ subPc \notin {"done", "init"}) => stopSub)
      ]_vars

\* a connect failed after a stream had ended: the client sleeps 1000 ms once more
C16_Witness ==
    /\ subPc = "sleep"
    /\ sleepMs = 1000
    /\ connects >= 1
    /\ ~stopSub

\* C17: the stop flag is tested before every read and before every connect attempt
\* (a read is entered only from the read loop's test and a connect only from the
\* outer loop's test, each having found the flag clear), so with stopSub set no new
\* read and no new connect begins; and once stopSub is set SubscribeLoop, if it was
\* started, eventually returns.
C17_StopIsObeyed ==
    /\ [][ /\ ((subPc' = "recv" /\ subPc # "recv") => (subPc = "readchk" /\ ~stopSub))
           /\ ((subPc' = "connect" /\ subPc # "connect") => (subPc = "outer" /\ ~stopSub))
         ]_vars
    /\ (stopSub ~> (subPc \in {"none", "done"}))

\* stop was set during a connection: the read loop was left with bytes still unread
C17_Witness ==
    /\ stopSub
    /\ subPc = "final"
    /\ wire # <<>>
    /\ uiPc = "stopping"

\* C18: when the joins of wWinMain have returned, every background thread had its
\* stop flag set and has ended: the subscriber, the capture thread, and every thread
\* SubmitInput started to post a text.
C18_EveryThreadStoppedAndJoined ==
    uiPc = "exited" =>
        /\ stopSub /\ subPc \in {"none", "done"}
        /\ stopCapture /\ capPc \in {"none", "done"}
        /\ pubThreads = 0

\* the positions of AppendLiveLogLine inside its lock_guard (main.cpp:834-840)
kSubCritical == {"app_push", "app_pop", "app_text", "app_ver", "app_unlock"}

\* the positions of the UI thread inside a lock_guard: RefreshTextIfChanged:1609-1611,
\* WM_PAINT:1865-1866 and 1892-1893, PollInputFile:1385-1389, SetLatestText:757-759
kUiCritical ==
    {"rf_text", "rf_ver", "rf_unlock", "pt_copy", "pt_unlock",
     "poll_cmp", "poll_ver", "poll_unlock", "set_text", "set_ver", "set_unlock"}

\* C19: textMutex is held exactly while its holder is inside one of the copy
\* sections, so never at a connect, a read from the network, a Sleep, the read of
\* the input file, the layout and speech of a refresh or the drawing of a paint;
\* it changes hands only through "free", so it is never acquired while held; the
\* holder's steps up to the release touch neither the connection, the parser's
\* buffers and the Sleep (subscriber) nor the file, the rendered state and the
\* narration (UI thread); and whoever holds it releases it.
C19_LockHeldOnlyForCopies ==
    /\ []( /\ (textMutex = "sub" <=> subPc \in kSubCritical)
           /\ (textMutex = "ui" <=> uiPc \in kUiCritical) )
    /\ [][ /\ (textMutex' # textMutex => (textMutex = "free" \/ textMutex' = "free"))
           /\ (textMutex = "sub" /\ textMutex' = "sub" /\ subPc' # subPc =>
                  UNCHANGED <<netVars, parserVars, sleepMs>>)
           /\ (textMutex = "ui" /\ textMutex' = "ui" /\ uiPc' # uiPc =>
                  UNCHANGED <<fileText, uiState, narrated, speakCalls>>)
         ]_vars
    /\ (textMutex # "free" ~> textMutex = "free")

\* the subscriber is inside AppendLiveLogLine while the UI thread waits for the lock
\* at the start of a refresh
C19_Witness ==
    /\ textMutex = "sub"
    /\ subPc = "app_text"
    /\ uiPc = "rf_lock"

\* C20: a poll that read the same trimmed content as the previous poll does not
\* publish: it never reaches the version bump of PollInputFile.
C20_UnchangedFileNoBump ==
    uiPc = "poll_ver" => ~(lastPolled.valid /\ lastPolled.text = normalized)

(***************************************************************************)
(* Properties of the poller, the log of publishes and the render tick      *)
(***************************************************************************)
\* the positions of PollInputFile inside its lock_guard and right before it
kPollPublishing == {"poll_lock", "poll_cmp", "poll_ver", "poll_unlock"}

\* C21: a poll that cannot open or read the file goes straight on to the refresh
\* and changes neither latestText, logLines nor dataVersion; in single-player mode
\* these change only inside the publishing part of PollInputFile or SetLatestText,
\* and that part of PollInputFile runs only on content read in this tick, so the
\* rest of a failed tick leaves them alone too; and every timer tick starts with a
\* poll again.
C21_FailedPollKeepsText ==
    /\ [][ /\ (uiPc = "poll" /\ uiPc' # "poll" /\ lastPolled'.missed =>
                  uiPc' = "rf_lock" /\ UNCHANGED <<sharedData, normalized>>)
           /\ (singlePlayerMode /\ sharedData' # sharedData =>
                  uiPc \in {"poll_cmp", "poll_ver", "set_text", "set_ver"})
           /\ (singlePlayerMode /\ uiPc = "idle" /\ uiPc' \in {"poll", "rf_lock"} =>
                  uiPc' = "poll")
         ]_vars
    /\ [](uiPc \in kPollPublishing => ~lastPolled.missed /\ normalized # <<>>)

\* the file held "a" and was published, then it was rewritten but could not be read:
\* the tick is at its refresh and the text is still "a"
C21_Witness ==
    /\ uiPc = "rf_lock"
    /\ lastPolled.missed
    /\ lastPolled.valid
    /\ latestText = <<"a">>
    /\ fileText = <<"b">>

\* C22: every completed publish has appended exactly one line to the log: outside
\* the critical sections the log has received one line per publish, and the line of
\* the latest publish carries latestText (under the stamp "--:--:--" when the
\* publish came from the poller or from SetLatestText).
C22_EveryPublishLogsOneLine ==
    textMutex = "free" =>
        /\ Len(published) = Len(committed) - 1
        /\ (Len(committed) > 1 =>
               /\ published[Len(published)].text = latestText
               /\ (singlePlayerMode => published[Len(published)].hhmmss = kUnknownStamp))

(***************************************************************************)
(* Properties of the wheel, the zoom and the window size                   *)
(***************************************************************************)
\* C23: whenever no handler is running, 0 <= scrollOffsetPx <= maxScrollOffsetPx.
C23_ScrollOffsetWithinRange ==
    uiPc = "idle" => (0 <= scrollOffsetPx /\ scrollOffsetPx <= maxScrollOffsetPx)

\* a paint of the multiplayer log is about to derive a scroll range below the offset
\* the wheel had reached (the client area now holds the whole log)
C23_Witness ==
    /\ uiPc = "pt_rest"
    /\ ~singlePlayerMode
    /\ scrollOffsetPx > 0
    /\ scrollOffsetPx > Max(0, TotalHeight(PaintLines, mainFontSize + 4) - 290)

\* C28: in multiplayer mode the sum of all wheel deltas equals WHEEL_DELTA times the
\* whole steps applied so far plus the carry, the carry stays strictly between
\* -WHEEL_DELTA and WHEEL_DELTA, and a wheel event moves scrollOffsetPx by 36 px for
\* each step it applied, clamped to [0, maxScrollOffsetPx].
C28_WheelCarriesPartialNotches ==
    /\ [](~singlePlayerMode => wheelSum = (120 * wheelSteps) + wheelRemainder)
    /\ [](-120 < wheelRemainder /\ wheelRemainder < 120)
    /\ [][ (~singlePlayerMode /\ wheelEvents' # wheelEvents) =>
              LET raw == scrollOffsetPx + (36 * (wheelSteps' - wheelSteps))
              IN  scrollOffsetPx' = IF raw < 0 THEN 0
                                    ELSE IF raw > maxScrollOffsetPx THEN maxScrollOffsetPx
                                    ELSE raw
         ]_vars

\* two half notches made one whole step and left no carry
C28_Witness ==
    /\ ~singlePlayerMode
    /\ wheelEvents = 2
    /\ wheelSum = 120
    /\ wheelSteps = 1
    /\ wheelRemainder = 0

\* C29: in single-player mode scrollOffsetPx and maxScrollOffsetPx are 0 in every
\* state, and a wheel event changes neither them nor wheelRemainder.
C29_NoScrollInSinglePlayer ==
    /\ [](singlePlayerMode => scrollOffsetPx = 0 /\ maxScrollOffsetPx = 0)
    /\ [][ (singlePlayerMode /\ wheelEvents' # wheelEvents) =>
              UNCHANGED <<scrollOffsetPx, maxScrollOffsetPx, wheelRemainder>> ]_vars

\* the wheel was turned in single-player mode and the window is being painted
C29_Witness ==
    /\ singlePlayerMode
    /\ wheelEvents > 0
    /\ uiPc = "pt_rest"

\* C24: mainFontSize stays within [10, 42]; a run of k zoom-in steps of 1 pt from
\* the default size 14 ends at min(14 + k, 42), so 50 such steps end at 42; and the
\* size changes only in a step of the idle UI thread that is no paint and touches
\* neither the shared text nor the scroll state.
C24_FontSizeClamped ==
    /\ [](10 <= mainFontSize /\ mainFontSize <= 42)
    /\ [](zoomIns >= 0 => mainFontSize = (IF 14 + zoomIns > 42 THEN 42 ELSE 14 + zoomIns))
    /\ [][ mainFontSize' # mainFontSize =>
              /\ uiPc = "idle"
              /\ UNCHANGED <<uiPc, sharedData, scrollOffsetPx, maxScrollOffsetPx>> ]_vars

\* fifty zoom-in steps of 1 pt were made from the default size
C24_Witness ==
    /\ zoomIns = 50
    /\ mainFontSize = 42

\* C25: the window's size, as set at start-up and by every zoom, lies within
\* [300, 567] x [180, 2000] and does not exceed the monitor's work area.
C25_WindowWithinLimits ==
    /\ 300 <= windowSize.w /\ windowSize.w <= 567
    /\ 180 <= windowSize.h /\ windowSize.h <= 2000
    /\ windowSize.w <= rcWork.w
    /\ windowSize.h <= rcWork.h

\* C26: once a tick has consumed a new version, the window has the size the layout
\* functions give for the text that tick consumed.
C26_WindowFitsRenderedContent ==
    (uiPc = "idle" /\ renderedVersion > 0) =>
        windowSize = FitWindow(narrated, mainFontSize, rcWork)

\* C27: the end of a tick whose snapshot version differs from renderedVersion stores
\* that version, requests narration of the snapshot's text once and marks the window
\* dirty; the end of a tick whose snapshot version equals renderedVersion changes
\* none of these; narration is requested nowhere else; so the narrations never
\* outnumber the publishes and there is none before the first publish.
C27_NarrationOnVersionChange ==
    /\ [][ /\ ((uiPc = "rf_rest" /\ uiPc' = "idle") =>
                  IF version # renderedVersion
                  THEN /\ renderedVersion' = version
                       /\ speakCalls' = speakCalls + 1
                       /\ narrated' = (IF singlePlayerMode THEN BodyOf(latest)
                                       ELSE IF latest = <<>> THEN kRecordingActive
                                       ELSE latest)
                       /\ dirty'
                  ELSE UNCHANGED <<renderedVersion, speakCalls, narrated, dirty>>)
           /\ (speakCalls' # speakCalls \/ renderedVersion' # renderedVersion =>
                  uiPc = "rf_rest")
         ]_vars
    /\ [](speakCalls <= Len(committed) - 1)
    /\ [](dataVersion = 0 => speakCalls = 0)

\* the tick after a narration took a snapshot with the version already rendered
C27_Witness ==
    /\ uiPc = "rf_rest"
    /\ version = renderedVersion
    /\ dataVersion = 1
    /\ speakCalls = 1

\* the statements of PollInputFile and SetLatestText from the lock onwards, and those
\* of AppendLiveLogLine
kUiWriterPcs == {"poll_lock", "poll_cmp", "poll_ver", "poll_unlock",
                 "set_lock", "set_text", "set_ver", "set_unlock"}
kSubWriterPcs == {"app_lock", "app_push", "app_pop", "app_text", "app_ver", "app_unlock"}

\* C30: the mode never changes after start-up.  In single-player mode the subscriber
\* and the capture thread are never started and the subscriber never reaches
\* AppendLiveLogLine; latestText, logLines and dataVersion change only by a step of
\* the UI thread inside PollInputFile or SetLatestText, holding the lock.  In
\* multiplayer mode the UI thread never enters the writing part of PollInputFile or
\* SetLatestText, and the three fields change only by a step of the subscriber
\* inside AppendLiveLogLine, holding the lock.
C30_SourcesMutuallyExclusive ==
    /\ [][ /\ singlePlayerMode' = singlePlayerMode
           /\ (sharedData' # sharedData =>
                  IF singlePlayerMode
                  THEN /\ uiPc \in kUiWriterPcs
                       /\ uiPc' # uiPc
                       /\ textMutex = "ui"
                       /\ UNCHANGED <<subPc, capPc>>
                  ELSE /\ subPc \in kSubWriterPcs
                       /\ subPc' # subPc
                       /\ textMutex = "sub"
                       /\ UNCHANGED uiPc)
         ]_vars
    /\ [](singlePlayerMode => subPc = "none" /\ capPc = "none")
    /\ [](~singlePlayerMode => uiPc \notin kUiWriterPcs)
    /\ [](~singlePlayerMode /\ uiPc # "start" => subPc # "none" /\ capPc # "none")

\* multiplayer mode: the subscriber has published twice and is writing a third
\* text while the UI thread is in a timer tick
C30_Witness ==
    /\ ~singlePlayerMode
    /\ subPc = "app_text"
    /\ dataVersion = 2
    /\ uiPc = "rf_rest"

(***************************************************************************)
(* Properties of the log lines                                             *)
(***************************************************************************)
\* the id converts to a number above zero
IdIsPositiveNumber(id) ==
    /\ id # <<>>
    /\ Stod(id).ok
    /\ ~Stod(id).neg
    /\ (Stod(id).int # <<>> \/ Stod(id).frac)

\* C31: when the one event of the connection has been processed, the subscriber
\* has stored exactly one line for it, and its stamp is HH:MM:SS local time of the
\* id's whole seconds when the id converts to a number above zero, and --:--:--
\* when the id is absent, not a number, or not above zero.
C31_StampFromId ==
    (subPc = "close" /\ Len(sent) = 1 /\ wire = <<>> /\ buf = <<>>) =>
        /\ Len(logLines) = 1
        /\ logLines[1].hhmmss =
              (IF IdIsPositiveNumber(sent[1].id)
               THEN FormatLocalHMS(SecOfDay(Stod(sent[1].id).int, 0))
               ELSE kUnknownStamp)

\* C32: every line of the scrollback, in every state, has a stamp that is not empty
\* and a body that is not empty and neither begins nor ends with a blank, tab,
\* carriage return or newline; and the event whose text is nothing but such
\* characters has been stored with the body "Recording active.".
C32_LogLinesWellFormed ==
    /\ \A i \in 1..Len(logLines) :
          /\ logLines[i].hhmmss # <<>>
          /\ logLines[i].text # <<>>
          /\ ~IsSpace(logLines[i].text[1])
          /\ ~IsSpace(logLines[i].text[Len(logLines[i].text)])
    /\ (subPc = "close" /\ Len(sent) = 1 /\ wire = <<>> /\ buf = <<>>
          /\ \A k \in 1..Len(sent[1].text) : IsSpace(sent[1].text[k])) =>
             (Len(logLines) = 1 /\ logLines[1].text = kRecordingActive)

\* the event whose text is newline, a, blank, b, newline has been stored as "a b"
C32_Witness ==
    /\ subPc = "close"
    /\ Len(sent) = 1
    /\ sent[1].text = <<"\n","a"," ","b","\n">>
    /\ Len(logLines) = 1
    /\ logLines[1].text = <<"a"," ","b">>

\* the size the window is to get for a font size on a monitor: the request, capped
\* by what the monitor leaves after its margins, raised to the minimum
GrownWindow(size, work) ==
    LET excess == IF size <= 24 THEN 0 ELSE size - 24
        reqW   == 567 + 56 * excess
        reqH   == 340 + 10 * excess
        monW   == IF work.w - 50 < 300 THEN 300 ELSE work.w - 50
        monH   == IF work.h - 50 < 180 THEN 180 ELSE work.h - 50
        capW   == IF reqW > monW THEN monW ELSE reqW
        capH   == IF reqH > monH THEN monH ELSE reqH
    IN  [w |-> IF capW < 300 THEN 300 ELSE capW,
         h |-> IF capH < 180 THEN 180 ELSE capH]

\* C33: a zoom that changes the font size and rebuilds the text formats gives the
\* window the size requested for the new font size (567 x 340 up to 24 pt, 56 px
\* wider and 10 px higher for each point above), capped by the monitor and then
\* raised to 300 x 180; a zoom whose rebuild fails leaves the window and the dirty
\* flag as they were; and nothing else resizes the window.
C33_FontDrivenWindowGrowth ==
    [][ /\ (mainFontSize' # mainFontSize =>
               \/ windowSize' = GrownWindow(mainFontSize', rcWork) /\ dirty'
               \/ UNCHANGED <<windowSize, dirty>>)
        /\ (windowSize' # windowSize => mainFontSize' # mainFontSize)
      ]_vars

\* 25 pt on the 640 x 360 monitor: the request of 623 x 350 was capped to 590 x 310
C33_Witness ==
    /\ rcWork = [w |-> 640, h |-> 360]
    /\ mainFontSize = 25
    /\ windowSize = [w |-> 590, h |-> 310]

(***************************************************************************)
(* Properties of the scrollback's layout                                   *)
(***************************************************************************)
\* the lines a multiplayer paint lays out from its copy of the log
LaidOut == IF lines = <<>> THEN << LogLine(kUnknownStamp, kRecordingActive) >> ELSE lines

\* the height of an entry: its rows (one more than its newlines) and 2 px
EntryHeight(l, row) == row * (1 + CountNl(l.text)) + 2

RECURSIVE SumOfHeights(_, _)
SumOfHeights(ls, row) ==
    IF ls = <<>> THEN 0 ELSE EntryHeight(Head(ls), row) + SumOfHeights(Tail(ls), row)

\* C34: the end of every multiplayer paint sets maxScrollOffsetPx to the total height
\* of the entries it laid out less the viewport height, or to 0 when that is
\* negative, and sets scrollOffsetPx to the old scrollOffsetPx clamped into
\* [0, new maxScrollOffsetPx]: both are functions of the copied log, the geometry
\* and the old offset, and the old maxScrollOffsetPx does not enter.
C34_PaintRederivesScrollRange ==
    [][ (uiPc = "pt_rest" /\ uiPc' = "pt_end" /\ ~singlePlayerMode) =>
           \E vp \in ViewportHeights :
              LET total  == SumOfHeights(LaidOut, mainFontSize + 4)
                  range  == IF total - vp > 0 THEN total - vp ELSE 0
              IN  /\ maxScrollOffsetPx' = range
                  /\ scrollOffsetPx' = (IF scrollOffsetPx < 0 THEN 0
                                        ELSE IF scrollOffsetPx > range THEN range
                                        ELSE scrollOffsetPx)
      ]_vars

\* two one-row lines of 20 px in the viewport of 20 px give a range of 20 px; the
\* wheel went up one notch (36 px, clamped to 20) and the window was painted again
C34_Witness ==
    /\ ~singlePlayerMode
    /\ uiPc = "idle"
    /\ ~dirty
    /\ Len(logLines) = 2
    /\ wheelSteps = 1
    /\ maxScrollOffsetPx = 20
    /\ scrollOffsetPx = 20

\* C35: in multiplayer mode, whenever the subscriber is not inside the critical
\* section of AppendLiveLogLine, the log holds min(dataVersion, 400) lines and, when
\* it holds any, latestText is the body of its newest line.
C35_LogTracksVersion ==
    (~singlePlayerMode /\ textMutex # "sub") =>
        /\ Len(logLines) = (IF dataVersion < 400 THEN dataVersion ELSE 400)
        /\ (logLines # <<>> => latestText = logLines[Len(logLines)].text)

\* 401 lines were appended: the log holds 400 and the newest is the one displayed
C35_Witness ==
    /\ ~singlePlayerMode
    /\ textMutex = "free"
    /\ dataVersion = 401
    /\ Len(logLines) = 400
    /\ latestText = <<"a">>
    /\ logLines[400].text = <<"a">>

(***************************************************************************)
(* Properties of the pending id and of the parser state of a connection    *)
(***************************************************************************)
\* the stamp the id line before line i of ls gives, with only ignored lines between
\* them; --:--:-- when a text line, a blank line or the start of the connection
\* comes first
RECURSIVE StampPendingAt(_, _)
StampPendingAt(ls, i) ==
    IF i = 0 THEN kUnknownStamp
    ELSE IF ls[i] = kLineId7 THEN <<"0","1",":","0","0",":","0","7">>
    ELSE IF ls[i] = kLineId8 THEN <<"0","1",":","0","0",":","0","8">>
    ELSE IF ls[i] \in IgnoredLines THEN StampPendingAt(ls, i - 1)
    ELSE kUnknownStamp

\* the stamps the text lines among ls are to get, in order, from line i on
RECURSIVE StampsExpectedFrom(_, _)
StampsExpectedFrom(ls, i) ==
    IF i > Len(ls) THEN <<>>
    ELSE (IF ls[i] \in {kLineTextA, kLineTextB}
          THEN <<StampPendingAt(ls, i - 1)>> ELSE <<>>) \o StampsExpectedFrom(ls, i + 1)

StampsExpected(ls) == StampsExpectedFrom(ls, 1)

\* C36: between two lines of a connection, the connection has published exactly one
\* line per text line processed, and the stamp of each is that of the id line before
\* it when nothing but ignored lines lies between them, and --:--:-- when another
\* text line or a blank line does or no id line came before; no text is pending; and
\* the flush at the end of the connection publishes nothing.
C36_IdConsumedByFirstText ==
    /\ [](subPc \in kBetweenLines =>
            /\ ~hasText
            /\ Len(PublishedHere) = Len(StampsExpected(CompleteLines(Consumed)))
            /\ \A k \in 1..Len(PublishedHere) :
                  PublishedHere[k].hhmmss = StampsExpected(CompleteLines(Consumed))[k])
    /\ [][subPc = "final" => (subPc' = "close" /\ UNCHANGED <<sharedData, published>>)]_vars

\* id 7, text a, text b: a was stamped from the id, b has no stamp
C36_Witness ==
    /\ subPc = "close"
    /\ CompleteLines(Consumed) = <<kLineId7, kLineTextA, kLineTextB>>
    /\ Len(PublishedHere) = 2
    /\ PublishedHere[1] = LogLine(<<"0","1",":","0","0",":","0","7">>, <<"a">>)
    /\ PublishedHere[2] = LogLine(kUnknownStamp, <<"b">>)

\* C37: a connection starts with an empty buffer, no pending id and no pending text,
\* whatever the one before it left behind; between lines a connection has
\* published exactly what its own complete lines publish, so neither the unfinished
\* line nor the id left at the end of the connection before it takes part; nothing
\* is published while no connection is being read; and what was published stays.
C37_ParserStateIsPerConnection ==
    /\ [][ /\ ((subPc = "connect" /\ subPc' = "readchk") =>
                  (buf' = <<>> /\ eventId' = <<>> /\ eventText' = <<>> /\ ~hasText'))
           /\ (subPc \in {"close", "sleep", "outer", "connect"} => UNCHANGED published)
           /\ SubSeq(published', 1, Len(published)) = published
         ]_vars
    /\ [](subPc \in kBetweenLines =>
            /\ SubstrFrom(WireOf(sent), Len(Consumed)) = buf \o wire
            /\ PublishedHere = PublishedBy(CompleteLines(Consumed), <<>>))

\* the first connection broke off after id 7 and the first half of its text line
\* (its last flush cleared the id, its end discarded the half line); the second has
\* sent the text line b, which was published alone and unstamped
C37_Witness ==
    /\ subPc = "close"
    /\ dropped = [buf |-> <<"d","a","t","a",":"," ","t","e">>, id |-> <<>>]
    /\ sent = << RawLine(kLineTextB) >>
    /\ wire = <<>> /\ buf = <<>>
    /\ published = << LogLine(kUnknownStamp, <<"b">>) >>

(***************************************************************************)
(* Properties of the shutdown                                              *)
(***************************************************************************)
\* C38 as stated: whatever the subscriber publishes after stopSub was set comes from
\* a chunk it had read before the flag was set, so it is never inside
\* AppendLiveLogLine once a read has returned bytes under a set flag.
C38_OnlyChunksReadBeforeStop ==
    subPc \in kSubWriterPcs => readsAfterStop = 0

\* C38, amended: after stopSub is set at most one more read returns bytes, the one
\* whose loop test had found the flag clear; a subscriber that finds the flag set at
\* the loop test leaves the read loop and begins no read; every publish comes from
\* the line loop (never from the flush behind the read loop), so nothing is
\* published once the flag was found set; and nothing is published and no shared
\* text is written after the joins have returned.
C38_AtMostOneReadAfterStop ==
    /\ [](readsAfterStop <= 1)
    /\ [][ /\ ((stopSub /\ subPc = "readchk" /\ subPc' # subPc) => subPc' = "final")
           /\ ((subPc' = "recv" /\ subPc # "recv") => (subPc = "readchk" /\ ~stopSub))
           /\ (published' # published =>
                  (subPc = "app_push" /\ subRet \in {"lines", "setid"}))
           /\ (subPc \in {"final", "close", "outer", "done"} => UNCHANGED published)
           /\ (uiPc = "exited" => UNCHANGED <<published, sharedData>>)
         ]_vars

\* the flag was set while a read was under way; the read has returned the event and
\* the subscriber is appending it
C38_Witness ==
    /\ stopSub
    /\ readsAfterStop = 1
    /\ subPc = "app_push"
    /\ appBody = <<"a">>
    /\ uiPc = "stopping"

C40_ScrollbackAnchoring ==
    [][ (uiPc = "pt_rest" /\ uiPc' = "pt_end" /\ ~singlePlayerMode) =>
           LET ls     == LaidOut
               row    == mainFontSize + 4
               calls  == drawn'.calls
               n      == Len(calls)
               bottom == drawn'.bottom
               offset == scrollOffsetPx'
               total  == SumOfHeights(ls, row)
           IN  /\ \E skip \in 0..(Len(ls) - n) :
                     /\ \A k \in 1..n :
                           LET i == Len(ls) - skip - k + 1
                           IN  /\ calls[k].line = ls[i]
                               /\ calls[k].h = EntryHeight(ls[i], row)
                               /\ calls[k].y + calls[k].h =
                                     bottom + offset
                                       - SumOfHeights(SubSeq(ls, i + 1, Len(ls)), row)
                     /\ (offset = 0 =>
                           (skip = 0 /\ n >= 1 /\ calls[1].y + calls[1].h = bottom))
                     /\ ((total >= bottom - kPadding /\ offset = maxScrollOffsetPx') =>
                           (skip + n = Len(ls) /\ n >= 1 /\ calls[n].y = kPadding))
               /\ \A k \in 2..n : /\ calls[k].y + calls[k].h = calls[k - 1].y
                                    /\ calls[k].y < calls[k - 1].y
      ]_vars

\* two entries of 20 px in the viewport of 20 px (10 to 30), scrolled up by the whole
\* range of 20 px: the older one is drawn at 10, the viewport's top, the newer at 30
C40_Witness ==
    /\ ~singlePlayerMode
    /\ uiPc = "pt_end"
    /\ drawn.bottom = 30
    /\ maxScrollOffsetPx = 20
    /\ scrollOffsetPx = 20
    /\ Len(drawn.calls) = 2
    /\ drawn.calls[1].y = 30
    /\ drawn.calls[2].y = 10
    /\ drawn.calls[2].line = logLines[1]

====
